---------------------------- MODULE Spec2Model ----------------------------
(***************************************************************************)
(* A model of the AI resume generator (src/app.py).                        *)
(*                                                                         *)
(* Text is a sequence of Unicode code points (naturals): "A-" is           *)
(* <<65, 45>>.  The character classes of Python's str methods are given    *)
(* for the code points the model draws its inputs from.                    *)
(***************************************************************************)
EXTENDS Naturals, Sequences, FiniteSets, TLC

VARIABLES
    \* the text sanitizer, clean_text_for_pdf
    c_stage,        \* "input" | "cleaned" | "again"
    c_text,         \* the argument
    c_replaced,     \* the text after the substitution table (app.py:502-503)
    c_out,          \* the returned safe_text
    c_again,        \* the result of sanitizing c_out once more
    \* one run of main / generate_resume after another
    pc,             \* "idle" | "await_token" | "await_gen" | "done"
    user_data,      \* the submitted profile
    template_style, \* the submitted style
    calls,          \* generate_resume calls so far
    passed,         \* those of them that passed validation
    iam_sent,       \* credential-exchange requests sent so far
    gen_sent,       \* generation requests sent so far
    call_iam,       \* credential-exchange requests sent by the current call
    call_gen,       \* generation requests sent by the current call
    prompt_built,   \* the current call has run create_resume_prompt
    token_resp,     \* what the current call's credential exchange brought back
    gen_resp,       \* what the current call's generation request brought back
    bearer,         \* the token in the current call's generation request, 0: none
    spent,          \* the tokens earlier calls sent in a generation request
    outcome,        \* how the current call of generate_resume ended
    displayed,      \* the messages main shows for it, in order
    \* the prompt builder, create_resume_prompt
    p_stage,        \* "input" | "built"
    p_data,         \* the profile
    p_style,        \* the style
    p_prompt,       \* the returned prompt
    \* the renderer, export_as_pdf
    d_pc,           \* "called" | "lines" | "write" | "fallback" | "done"
    d_user,         \* the profile
    d_text,         \* the generated text
    d_font,         \* <<font_family, font_size>>
    d_cells,        \* the cells of the page header
    d_lines,        \* the sanitized text, split at "\n"
    d_i,            \* the line the loop is at
    skip_header,    \* the header-skip mode
    current_section,\* the last section heading
    blocks,         \* the body blocks rendered so far
    trail,          \* per line met: the mode it was met in, what became of it
    d_writes,       \* the pdf.output calls: file name, and whether it succeeded
    d_result,       \* the returned file name, or the exception raised
    \* one run of main's submission handler against a mocked endpoint
    m_pc,           \* "submitted" | "await_token" | "await_gen" | "pdf" | "open"
                    \* | "text" | "json" | "end"
    m_user,         \* user_data, as collected from the form
    m_settings,     \* selected_model, template_style, font_family, font_size
    m_endpoint,     \* what the mocked endpoint answers: token, gen
    m_prompt,       \* the prompt create_resume_prompt returned, <<>>: not called
    m_sent,         \* the requests posted so far: "iam", "gen"
    m_token,        \* the token get_iam_token returned, 0: none
    m_outcome,      \* how generate_resume ended
    m_pdf,          \* what export_as_pdf rendered, wrote and returned
    m_faults,       \* the file operations that failed: "write1", "write2", "open"
    m_offered,      \* the download buttons made, in order
    m_shown         \* the messages shown, in order

cleanVars == <<c_stage, c_text, c_replaced, c_out, c_again>>
genVars == <<pc, user_data, template_style, calls, passed, iam_sent, gen_sent, call_iam,
             call_gen, prompt_built, token_resp, gen_resp, bearer, spent, outcome,
             displayed>>
promptVars == <<p_stage, p_data, p_style, p_prompt>>
pdfVars == <<d_pc, d_user, d_text, d_font, d_cells, d_lines, d_i, skip_header,
             current_section, blocks, trail, d_writes, d_result>>
mainVars == <<m_pc, m_user, m_settings, m_endpoint, m_prompt, m_sent, m_token, m_outcome,
              m_pdf, m_faults, m_offered, m_shown>>
vars == <<cleanVars, genVars, promptVars, pdfVars, mainVars>>
\* what the actions of one component leave alone
nonCleanVars == <<genVars, promptVars, pdfVars, mainVars>>
nonGenVars == <<cleanVars, promptVars, pdfVars, mainVars>>
nonPromptVars == <<cleanVars, genVars, pdfVars, mainVars>>
nonPdfVars == <<cleanVars, genVars, promptVars, mainVars>>
nonMainVars == <<cleanVars, genVars, promptVars, pdfVars>>

(***************************************************************************)
(* Bounds of the model.                                                    *)
(***************************************************************************)
MaxCleanLen == 2
MaxCalls == 2
MaxDefects == 2
MaxLines == 2

(***************************************************************************)
(* Python's str predicates, on the code points the model uses.             *)
(***************************************************************************)
\* str.isalpha: ASCII letters, the Latin-1 letters, and the letters
\* U+0131, U+0141, U+0142, U+0178, U+017F, U+039C, U+4E00 above Latin-1.
AlphaChars ==
    (65..90) \cup (97..122) \cup {170, 181, 186} \cup (192..214)
        \cup (216..246) \cup (248..255) \cup {305, 321, 322, 376, 383, 924, 19968}

\* str.isdigit: 0-9, superscript 2, 3, 1, ARABIC-INDIC DIGIT THREE (U+0663),
\* CIRCLED DIGIT ONE (U+2460).
DigitChars == (48..57) \cup {178, 179, 185, 1635, 9312}

\* str.isspace: ASCII whitespace, NEL (U+0085), NBSP (U+00A0), EM SPACE
\* (U+2003), LINE SEPARATOR (U+2028), IDEOGRAPHIC SPACE (U+3000).
SpaceChars == {9, 10, 11, 12, 13, 28, 29, 30, 31, 32, 133, 160, 8195, 8232, 12288}

isalpha(c) == c \in AlphaChars
isdigit(c) == c \in DigitChars
isspace(c) == c \in SpaceChars

(***************************************************************************)
(* clean_text_for_pdf (app.py:469-527).                                    *)
(***************************************************************************)
\* The keys of the replacements dict, in insertion order.  The literal keys
\* of lines 494, 497 and 498 repeat U+2022, U+25CF and U+25CB with the same
\* value, so they keep the position and value of their first occurrence.
ReplacementKeys ==
    << 8226, 8211, 8212, 8217, 8220, 8221, 8230, 160, 8722, 183, 9679, 9675,
       9632, 9633, 8594, 8592, 174, 169, 8482, 9472, 9474, 9733, 9734 >>

replacements ==
    [ c \in {ReplacementKeys[i] : i \in DOMAIN ReplacementKeys} |->
        CASE c = 8226 -> <<42, 32>>          \* bullet -> "* "
          [] c = 8211 -> <<45>>              \* en dash -> "-"
          [] c = 8212 -> <<45>>              \* em dash -> "-"
          [] c = 8217 -> <<39>>              \* right single quote -> "'"
          [] c = 8220 -> <<34>>              \* left double quote -> '"'
          [] c = 8221 -> <<34>>              \* right double quote -> '"'
          [] c = 8230 -> <<46, 46, 46>>      \* ellipsis -> "..."
          [] c = 160  -> <<32>>              \* non-breaking space -> " "
          [] c = 8722 -> <<45>>              \* minus sign -> "-"
          [] c = 183  -> <<42, 32>>          \* middle dot -> "* "
          [] c = 9679 -> <<42, 32>>          \* black circle -> "* "
          [] c = 9675 -> <<42, 32>>          \* white circle -> "* "
          [] c = 9632 -> <<42, 32>>          \* black square -> "* "
          [] c = 9633 -> <<42, 32>>          \* white square -> "* "
          [] c = 8594 -> <<45, 62>>          \* right arrow -> "->"
          [] c = 8592 -> <<60, 45>>          \* left arrow -> "<-"
          [] c = 174  -> <<40, 82, 41>>      \* registered -> "(R)"
          [] c = 169  -> <<40, 67, 41>>      \* copyright -> "(C)"
          [] c = 8482 -> <<40, 84, 77, 41>>  \* trademark -> "(TM)"
          [] c = 9472 -> <<45>>              \* box drawing horizontal -> "-"
          [] c = 9474 -> <<124>>             \* box drawing vertical -> "|"
          [] c = 9733 -> <<42>>              \* black star -> "*"
          [] c = 9734 -> <<42>>              \* white star -> "*"
    ]

\* str.replace(ch, rep) for a one-character ch.
RECURSIVE str_replace(_, _, _)
str_replace(text, ch, rep) ==
    IF text = <<>> THEN <<>>
    ELSE (IF Head(text) = ch THEN rep ELSE <<Head(text)>>)
             \o str_replace(Tail(text), ch, rep)

\* The loop of lines 502-503, from the k-th key on.
RECURSIVE apply_replacements_from(_, _)
apply_replacements_from(text, k) ==
    IF k > Len(ReplacementKeys) THEN text
    ELSE apply_replacements_from(
             str_replace(text, ReplacementKeys[k], replacements[ReplacementKeys[k]]),
             k + 1)

apply_replacements(text) == apply_replacements_from(text, 1)

\* fallback_char with the "ord(char) < 256" test of line 517 forgotten:
\* every digit is appended as it is.
fallback_char_keeps_digits(c) ==
    IF c < 128 THEN <<c>>
    ELSE IF isalpha(c) THEN (IF c < 256 THEN <<c>> ELSE <<63>>)
    ELSE IF isdigit(c) THEN <<c>>
    ELSE IF isspace(c) THEN <<32>>
    ELSE IF c < 256 THEN <<c>>
    ELSE <<>>

\* fallback_char with the letters above Latin-1 removed instead of replaced.
fallback_char_drops_letters(c) ==
    IF c < 128 THEN <<c>>
    ELSE IF isalpha(c) THEN (IF c < 256 THEN <<c>> ELSE <<>>)
    ELSE IF isdigit(c) THEN (IF c < 256 THEN <<c>> ELSE <<63>>)
    ELSE IF isspace(c) THEN <<32>>
    ELSE IF c < 256 THEN <<c>>
    ELSE <<>>

\* What one iteration of the loop of lines 507-525 appends to safe_text.
fallback_char(c) ==
    IF c < 128 THEN <<c>>
    ELSE IF isalpha(c) THEN (IF c < 256 THEN <<c>> ELSE <<63>>)
    ELSE IF isdigit(c) THEN (IF c < 256 THEN <<c>> ELSE <<63>>)
    ELSE IF isspace(c) THEN <<32>>
    ELSE IF c < 256 THEN <<c>>
    ELSE <<>>

RECURSIVE fallback_pass(_)
fallback_pass(text) ==
    IF text = <<>> THEN <<>>
    ELSE fallback_char(Head(text)) \o fallback_pass(Tail(text))

clean_text_for_pdf(text) == fallback_pass(apply_replacements(text))

(***************************************************************************)
(* String helpers: Python's str.strip, startswith, "in".                   *)
(***************************************************************************)
RECURSIVE lstrip(_)
lstrip(s) == IF s /= <<>> /\ isspace(Head(s)) THEN lstrip(Tail(s)) ELSE s

RECURSIVE rstrip(_)
rstrip(s) ==
    IF s /= <<>> /\ isspace(s[Len(s)]) THEN rstrip(SubSeq(s, 1, Len(s) - 1)) ELSE s

strip(s) == rstrip(lstrip(s))

startswith(s, prefix) ==
    Len(s) >= Len(prefix) /\ SubSeq(s, 1, Len(prefix)) = prefix

\* s[n:]
DropFirst(s, n) == SubSeq(s, n + 1, Len(s))

\* "needle in s"
contains(s, needle) ==
    \E i \in 0..(Len(s) - Len(needle)) : SubSeq(s, i + 1, i + Len(needle)) = needle

\* The characters of s not in the set drop, in order.
RECURSIVE without(_, _)
without(s, drop) ==
    IF s = <<>> THEN <<>>
    ELSE (IF Head(s) \in drop THEN <<>> ELSE <<Head(s)>>) \o without(Tail(s), drop)

AllIn(s, class) == \A i \in 1..Len(s) : s[i] \in class

AsciiLetters == (65..90) \cup (97..122)
AsciiDigits == 48..57

(***************************************************************************)
(* The validators (app.py:127-146).                                        *)
(***************************************************************************)
\* ^[a-zA-Z0-9._%+-]+@[a-zA-Z0-9.-]+\.[a-zA-Z]{2,} up to position Len(s)
email_body(s) ==
    \E i \in 1..Len(s), j \in 1..Len(s) :
        /\ s[i] = 64                                           \* "@"
        /\ s[j] = 46                                           \* "."
        /\ 1 < i
        /\ i + 1 < j
        /\ j + 2 <= Len(s)
        /\ AllIn(SubSeq(s, 1, i - 1),
                 AsciiLetters \cup AsciiDigits \cup {46, 95, 37, 43, 45})
        /\ AllIn(SubSeq(s, i + 1, j - 1), AsciiLetters \cup AsciiDigits \cup {46, 45})
        /\ AllIn(SubSeq(s, j + 1, Len(s)), AsciiLetters)

\* validate_email with the pattern cut down to ^[a-zA-Z0-9._%+-@]+$ : the
\* "@", the domain and the top-level domain are no longer required.
validate_email_no_at(email) ==
    /\ email /= <<>>
    /\ AllIn(email, AsciiLetters \cup AsciiDigits \cup {46, 95, 37, 43, 45, 64})

validate_email(email) ==
    \/ email_body(email)
    \/ /\ email /= <<>>
       /\ email[Len(email)] = 10
       /\ email_body(SubSeq(email, 1, Len(email) - 1))

\* \d of a str pattern: the decimal digits (category Nd), U+0663 among them.
ReDigits == AsciiDigits \cup {1635}

\* ^[\+]?[1-9][\d\s\-\(\)]{7,15}$ on the phone with " ", "-", "(", ")" removed
validate_phone(phone) ==
    LET t == without(phone, {32, 45, 40, 41})
        first == IF t /= <<>> /\ t[1] = 43 THEN 2 ELSE 1       \* after [\+]?
        rest == SubSeq(t, first + 1, Len(t))
    IN  /\ Len(t) >= first
        /\ t[first] \in 49..57
        /\ AllIn(rest, ReDigits \cup SpaceChars \cup {45, 40, 41})
        /\ \/ Len(rest) \in 7..15
           \/ Len(rest) = 16 /\ rest[16] = 10                  \* "$" before "\n"

\* (https?://)?(www\.)? then site, then [a-zA-Z0-9-]+/?$
profile_url(s, site) ==
    LET a == IF startswith(s, <<104, 116, 116, 112, 115, 58, 47, 47>>)    \* "https://"
                 THEN DropFirst(s, 8)
             ELSE IF startswith(s, <<104, 116, 116, 112, 58, 47, 47>>)    \* "http://"
                 THEN DropFirst(s, 7)
             ELSE s
        b == IF startswith(a, <<119, 119, 119, 46>>) THEN DropFirst(a, 4) ELSE a    \* "www."
        c == DropFirst(b, Len(site))
        d == IF c /= <<>> /\ c[Len(c)] = 10 THEN SubSeq(c, 1, Len(c) - 1) ELSE c
        e == IF d /= <<>> /\ d[Len(d)] = 47 THEN SubSeq(d, 1, Len(d) - 1) ELSE d
    IN  /\ startswith(b, site)
        /\ e /= <<>>
        /\ AllIn(e, AsciiLetters \cup AsciiDigits \cup {45})

validate_linkedin(linkedin) ==
    \/ linkedin = <<>>
    \/ profile_url(linkedin,
           <<108, 105, 110, 107, 101, 100, 105, 110, 46, 99, 111, 109, 47, 105, 110, 47>>)
                                                               \* "linkedin.com/in/"

validate_github(github) ==
    \/ github = <<>>
    \/ profile_url(github, <<103, 105, 116, 104, 117, 98, 46, 99, 111, 109, 47>>)
                                                               \* "github.com/"

(***************************************************************************)
(* generate_resume and get_iam_token (app.py:149-262).                     *)
(*                                                                         *)
(* An error message is the sequence of the pieces its f-string joins; the  *)
(* glyphs that open the messages are written (x), (clock), (globe) and     *)
(* (check).                                                                *)
(* A call of a function ends in a result: a returned value, or a raised    *)
(* exception with its class and message.                                   *)
(***************************************************************************)
Returned(v) == [exc |-> "none", msg |-> <<>>, value |-> v]
Raised(class, msg) == [exc |-> class, msg |-> msg, value |-> <<>>]

MsgUnexpectedPrefix == "(x) Unexpected error: "
MsgTimeout == <<"(clock) Request timed out. Please try again.">>
MsgConnect == <<"(globe) Connection error. Please check your internet connection.">>
MsgInvalidKey == <<"(x) Invalid API key format">>
MsgAuthFailed == <<"(x) API key authentication failed">>
MsgKeyDenied == <<"(x) API key access denied">>
MsgModelUnavailable == <<"(x) Model not available. Try a different model.">>
MsgAccessDenied == <<"(x) Access denied. Check your project setup.">>
MsgRateLimit == <<"(x) Rate limit exceeded. Please wait a moment and try again.">>
MsgNoResponse == <<"(x) No response from model">>
MsgEmptyResponse == <<"(x) Empty response. Try again.">>
MsgInvalidEmail == <<"(x) Invalid email format">>
MsgInvalidPhone == <<"(x) Invalid phone number format">>
MsgIamError(status, text) == <<"(x) IAM token error [", ToString(status), "]: ", text>>
MsgApiError(status, text) == <<"(x) API error [", ToString(status), "]: ", text>>

\* ', '.join(names)
RECURSIVE join_names(_)
join_names(names) ==
    IF Len(names) <= 1 THEN names
    ELSE <<Head(names), ", ">> \o join_names(Tail(names))

MsgMissing(fields) == <<"(x) Missing required fields: ">> \o join_names(fields)

\* safe_api_call with every exception swallowed: the caller gets an empty
\* value (token 0) and goes on.
safe_api_call_swallowing(result) ==
    IF result.exc = "none" THEN result ELSE Returned(0)

\* safe_api_call (lines 152-161), given how func ended.  ResumeGeneratorError
\* is an Exception, so the last handler catches it too.
safe_api_call(result) ==
    IF result.exc = "none" THEN result
    ELSE IF result.exc = "TimeoutException" THEN Raised("ResumeGeneratorError", MsgTimeout)
    ELSE IF result.exc = "ConnectError" THEN Raised("ResumeGeneratorError", MsgConnect)
    ELSE Raised("ResumeGeneratorError", <<MsgUnexpectedPrefix>> \o result.msg)

\* httpx.post as seen by its caller: a response, or a transport exception.
transport(resp) ==
    IF resp.kind = "timeout" THEN Raised("TimeoutException", <<"timed out">>)
    ELSE IF resp.kind = "connect" THEN Raised("ConnectError", <<"connection failed">>)
    ELSE Returned(resp)

\* _get_token (lines 165-186), given what the post brought back.
get_token(resp) ==
    IF resp.kind /= "http" THEN transport(resp)
    ELSE IF resp.status /= 200 THEN
        IF resp.status = 400 THEN Raised("ResumeGeneratorError", MsgInvalidKey)
        ELSE IF resp.status = 401 THEN Raised("ResumeGeneratorError", MsgAuthFailed)
        ELSE IF resp.status = 403 THEN Raised("ResumeGeneratorError", MsgKeyDenied)
        ELSE Raised("ResumeGeneratorError", MsgIamError(resp.status, resp.text))
    ELSE IF resp.has_token THEN Returned(resp.token)
    ELSE Raised("KeyError", <<"'access_token'">>)

get_iam_token(resp) == safe_api_call(get_token(resp))

\* str(e) of the json.JSONDecodeError resp.json() raises (line 252) for the
\* bodies of the model that are not JSON: none of them starts a JSON value.
json_error(text) == "Expecting value: line 1 column 1 (char 0)"

\* _generate with 429 no longer told apart from the other statuses.
generate_no_429(resp) ==
    IF resp.kind /= "http" THEN transport(resp)
    ELSE IF resp.status = 404 THEN Raised("ResumeGeneratorError", MsgModelUnavailable)
    ELSE IF resp.status = 403 THEN Raised("ResumeGeneratorError", MsgAccessDenied)
    ELSE IF resp.status /= 200 THEN
        Raised("ResumeGeneratorError", MsgApiError(resp.status, resp.text))
    ELSE IF ~resp.json THEN Raised("JSONDecodeError", <<json_error(resp.text)>>)
    ELSE IF ~resp.has_results \/ resp.results = <<>> THEN
        Raised("ResumeGeneratorError", MsgNoResponse)
    ELSE IF strip(resp.results[1]) = <<>> THEN
        Raised("ResumeGeneratorError", MsgEmptyResponse)
    ELSE Returned(strip(resp.results[1]))

\* _generate (lines 232-260), given what the post brought back.  Each
\* element of resp.results is the result's generated_text, "" when the
\* result has none (the default of .get).
generate(resp) ==
    IF resp.kind /= "http" THEN transport(resp)
    ELSE IF resp.status = 404 THEN Raised("ResumeGeneratorError", MsgModelUnavailable)
    ELSE IF resp.status = 403 THEN Raised("ResumeGeneratorError", MsgAccessDenied)
    ELSE IF resp.status = 429 THEN Raised("ResumeGeneratorError", MsgRateLimit)
    ELSE IF resp.status /= 200 THEN
        Raised("ResumeGeneratorError", MsgApiError(resp.status, resp.text))
    ELSE IF ~resp.json THEN Raised("JSONDecodeError", <<json_error(resp.text)>>)
    ELSE IF ~resp.has_results \/ resp.results = <<>> THEN
        Raised("ResumeGeneratorError", MsgNoResponse)
    ELSE IF strip(resp.results[1]) = <<>> THEN
        Raised("ResumeGeneratorError", MsgEmptyResponse)
    ELSE Returned(strip(resp.results[1]))

\* The validation of lines 194-206: what it raises, or "none".
required_fields ==
    <<"name", "role", "skills", "experience", "education", "phone", "email">>

missing_fields(data) ==
    SelectSeq(required_fields, LAMBDA f : strip(data[f]) = <<>>)

validate(data) ==
    IF missing_fields(data) /= <<>>
        THEN Raised("ResumeGeneratorError", MsgMissing(missing_fields(data)))
    ELSE IF ~validate_email(data.email)
        THEN Raised("ResumeGeneratorError", MsgInvalidEmail)
    ELSE IF ~validate_phone(data.phone)
        THEN Raised("ResumeGeneratorError", MsgInvalidPhone)
    ELSE Returned(<<>>)

(***************************************************************************)
(* The sanitizer applied to every text of at most MaxCleanLen characters   *)
(* over CleanAlphabet, and to its own result.                              *)
(***************************************************************************)
\* Every key of the table, the left single quote U+2018 (no key), and one
\* or more characters of each class the fallback pass tells apart.
CleanAlphabet ==
    {ReplacementKeys[i] : i \in DOMAIN ReplacementKeys}
        \cup {8216}
        \cup {65, 63, 32, 10}            \* ASCII: "A", "?", " ", "\n"
        \cup {233, 178, 189, 215, 133}   \* Latin-1: e-acute, superscript 2, 1/2, times, NEL
        \cup {321, 1635, 8531, 8195, 128512}
                                         \* above: L-stroke, Arabic 3, 1/3, em space, emoji

StringsUpTo(alphabet, n) == UNION {[1..k -> alphabet] : k \in 0..n}

CleanIdle ==
    /\ c_stage = "off"
    /\ c_text = <<>>
    /\ c_replaced = <<>>
    /\ c_out = <<>>
    /\ c_again = <<>>

\* clean_text_for_pdf(c_text)
Clean ==
    /\ c_stage = "input"
    /\ c_replaced' = apply_replacements(c_text)
    /\ c_out' = clean_text_for_pdf(c_text)
    /\ c_stage' = "cleaned"
    /\ UNCHANGED <<c_text, c_again, nonCleanVars>>

\* clean_text_for_pdf applied to its own result, as export_as_pdf does when
\* it hands already sanitized lines to section_header / safe_multi_cell.
CleanAgain ==
    /\ c_stage = "cleaned"
    /\ c_again' = clean_text_for_pdf(c_out)
    /\ c_stage' = "again"
    /\ UNCHANGED <<c_text, c_replaced, c_out, nonCleanVars>>

(***************************************************************************)
(* The inputs of the generation pipeline: the profiles, the styles and     *)
(* the responses of the two endpoints.                                     *)
(***************************************************************************)
Fields ==
    {"name", "role", "phone", "email", "location", "linkedin", "github",
     "skills", "experience", "education", "certifications"}

\* Jane Doe, the profile every other profile is a variation of.
BaseProfile ==
    [ name |-> <<74, 97, 110, 101, 32, 68, 111, 101>>,                  \* "Jane Doe"
      role |-> <<69, 110, 103, 105, 110, 101, 101, 114>>,               \* "Engineer"
      phone |-> <<43, 49, 32, 40, 53, 53, 53, 41, 32, 48, 49, 48, 45, 48, 49, 48, 48>>,
                                                               \* "+1 (555) 010-0100"
      email |-> <<106, 97, 110, 101, 64, 101, 120, 46, 99, 111, 109>>,  \* "jane@ex.com"
      location |-> <<78, 89, 67>>,                                      \* "NYC"
      linkedin |-> <<104, 116, 116, 112, 115, 58, 47, 47, 108, 105, 110, 107, 101, 100,
                     105, 110, 46, 99, 111, 109, 47, 105, 110, 47, 106, 100, 111, 101>>,
                                                               \* "https://linkedin.com/in/jdoe"
      github |-> <<103, 105, 116, 104, 117, 98, 46, 99, 111, 109, 47, 106, 100, 111, 101>>,
                                                               \* "github.com/jdoe"
      skills |-> <<71, 111>>,                                           \* "Go"
      experience |-> <<88>>,                                            \* "X"
      education |-> <<89>>,                                             \* "Y"
      certifications |-> <<65, 87, 83>> ]                               \* "AWS"

\* What the form may hold in each field besides the value of BaseProfile.
OtherValues ==
    [ name |-> {<<>>, <<32>>},                                          \* "", " "
      role |-> {<<>>},
      phone |-> {<<>>, <<97, 98, 99>>,                                  \* "", "abc"
                 <<53, 53, 53, 45, 48, 49, 48, 48>>},                   \* "555-0100"
      email |-> {<<>>, <<110, 111, 116, 45, 97, 110, 45, 101, 109, 97, 105, 108>>},
                                                               \* "", "not-an-email"
      location |-> {<<>>},
      linkedin |-> {<<>>, <<110, 111, 116, 32, 97, 32, 117, 114, 108>>}, \* "", "not a url"
      github |-> {<<>>, <<106, 100, 111, 101>>},                        \* "", "jdoe"
      skills |-> {<<>>},
      experience |-> {<<>>},
      education |-> {<<>>},
      certifications |-> {<<>>} ]

\* The profiles that differ from BaseProfile in at most MaxDefects fields.
Profiles ==
    UNION { { [f \in Fields |-> IF f \in D THEN alt[f] ELSE BaseProfile[f]] :
                alt \in { a \in [D -> UNION {OtherValues[f] : f \in D}] :
                              \A f \in D : a[f] \in OtherValues[f] } }
            : D \in {E \in SUBSET Fields : Cardinality(E) <= MaxDefects} }

Styles == {"professional", "technical", "creative", "academic"}

NoResponse == [kind |-> "none"]

\* The credential exchange's answers; token is the bearer token a 200 carries.
TokenResponses(token) ==
    { [kind |-> "http", status |-> 200, text |-> "{...}", has_token |-> b, token |-> token]
        : b \in BOOLEAN }
    \cup { [kind |-> "http", status |-> s, text |-> "body", has_token |-> FALSE, token |-> 0]
        : s \in {400, 401, 403, 500} }
    \cup { [kind |-> k] : k \in {"timeout", "connect"} }

GeneratedTexts ==
    { <<>>,
      <<32, 32, 10>>,                                                   \* "  \n"
      <<69, 88, 80, 69, 82, 73, 69, 78, 67, 69, 10, 45, 32, 68, 105, 100, 32, 88, 10>> }
                                                               \* "EXPERIENCE\n- Did X\n"

\* The generation endpoint's answers: a 200 whose body is not JSON, has no
\* "results", has an empty list, or has one result with its text.
GenResponses ==
    { [kind |-> "http", status |-> 200, text |-> "<html>not json</html>", json |-> FALSE,
       has_results |-> FALSE, results |-> <<>>] }
    \cup { [kind |-> "http", status |-> 200, text |-> "{...}", json |-> TRUE,
            has_results |-> b, results |-> <<>>] : b \in BOOLEAN }
    \cup { [kind |-> "http", status |-> 200, text |-> "{...}", json |-> TRUE,
            has_results |-> TRUE, results |-> <<t>>] : t \in GeneratedTexts }
    \cup { [kind |-> "http", status |-> s, text |-> "body", json |-> FALSE,
            has_results |-> FALSE, results |-> <<>>] : s \in {401, 403, 404, 429, 500} }
    \cup { [kind |-> k] : k \in {"timeout", "connect"} }

NoOutcome == [exc |-> "pending", msg |-> <<>>, value |-> <<>>]

MsgSuccess == <<"(check) Resume generated successfully!">>
MsgPleaseRetry == <<"Please try again or contact support if the issue persists.">>

\* The messages main shows, in order, for the way a call in its try block
\* ended: st.success after generate_resume (line 724), st.error for a
\* ResumeGeneratorError (line 790), st.error and st.info for any other
\* exception (lines 792-793).
main_display(result) ==
    IF result.exc = "none" THEN <<MsgSuccess>>
    ELSE IF result.exc = "ResumeGeneratorError" THEN <<result.msg>>
    ELSE << <<MsgUnexpectedPrefix>> \o result.msg, MsgPleaseRetry >>

GenIdle ==
    /\ pc = "off"
    /\ user_data = BaseProfile
    /\ template_style = "professional"
    /\ calls = 0
    /\ passed = 0
    /\ iam_sent = 0
    /\ gen_sent = 0
    /\ call_iam = 0
    /\ call_gen = 0
    /\ prompt_built = FALSE
    /\ token_resp = NoResponse
    /\ gen_resp = NoResponse
    /\ bearer = 0
    /\ spent = {}
    /\ outcome = NoOutcome
    /\ displayed = <<>>

(***************************************************************************)
(* create_resume_prompt (app.py:264-336).  A profile is a function from    *)
(* its keys to texts; an optional key may be missing from it.              *)
(***************************************************************************)
\* dict.get(key, default)
get(data, key, default) == IF key \in DOMAIN data THEN data[key] ELSE default

NotSpecified == <<78, 111, 116, 32, 115, 112, 101, 99, 105, 102, 105, 101, 100>>    \* "Not specified"
NoneListed == <<78, 111, 110, 101, 32, 108, 105, 115, 116, 101, 100>>    \* "None listed"

\* The f-string of lines 267-277.
base_info(data) ==
    <<10>>
    \o <<78, 97, 109, 101, 58, 32>> \o data.name \o <<10>>                       \* "Name: "
    \o <<82, 111, 108, 101, 58, 32>> \o data.role \o <<10>>                       \* "Role: "
    \o <<80, 104, 111, 110, 101, 58, 32>> \o data.phone \o <<10>>                 \* "Phone: "
    \o <<69, 109, 97, 105, 108, 58, 32>> \o data.email \o <<10>>                 \* "Email: "
    \o <<76, 111, 99, 97, 116, 105, 111, 110, 58, 32>>
        \o get(data, "location", NotSpecified) \o <<10>>                \* "Location: "
    \o <<83, 107, 105, 108, 108, 115, 58, 32>> \o data.skills \o <<10>>        \* "Skills: "
    \o <<69, 120, 112, 101, 114, 105, 101, 110, 99, 101, 58, 32>>
        \o data.experience \o <<10>>                                    \* "Experience: "
    \o <<69, 100, 117, 99, 97, 116, 105, 111, 110, 58, 32>>
        \o data.education \o <<10>>                                     \* "Education: "
    \o <<67, 101, 114, 116, 105, 102, 105, 99, 97, 116, 105, 111, 110, 115, 58, 32>>
        \o get(data, "certifications", NoneListed) \o <<10>>            \* "Certifications: "

\* "Create a professional, ATS-friendly resume with clean format..." and the blank line after it
PromptHead_professional ==
    << 67, 114, 101, 97, 116, 101, 32, 97, 32, 112, 114, 111, 102, 101, 115, 115, 105, 111,
       110, 97, 108, 44, 32, 65, 84, 83, 45, 102, 114, 105, 101, 110, 100, 108, 121, 32,
       114, 101, 115, 117, 109, 101, 32, 119, 105, 116, 104, 32, 99, 108, 101, 97, 110, 32,
       102, 111, 114, 109, 97, 116, 116, 105, 110, 103, 46, 32, 85, 115, 101, 32, 116, 104,
       101, 32, 102, 111, 108, 108, 111, 119, 105, 110, 103, 32, 105, 110, 102, 111, 114,
       109, 97, 116, 105, 111, 110, 58, 10, 10 >>

\* "\n\nFormat requirements:\n- ..." to "Generate a complete, professional resume."
PromptTail_professional ==
    << 10, 10, 70, 111, 114, 109, 97, 116, 32, 114, 101, 113, 117, 105, 114, 101, 109, 101,
       110, 116, 115, 58, 10, 45, 32, 85, 115, 101, 32, 65, 76, 76, 32, 67, 65, 80, 83, 32,
       102, 111, 114, 32, 115, 101, 99, 116, 105, 111, 110, 32, 104, 101, 97, 100, 101,
       114, 115, 10, 45, 32, 85, 115, 101, 32, 115, 105, 109, 112, 108, 101, 32, 100, 97,
       115, 104, 101, 115, 32, 40, 45, 41, 32, 102, 111, 114, 32, 98, 117, 108, 108, 101,
       116, 32, 112, 111, 105, 110, 116, 115, 10, 45, 32, 75, 101, 101, 112, 32, 102, 111,
       114, 109, 97, 116, 116, 105, 110, 103, 32, 99, 108, 101, 97, 110, 32, 97, 110, 100,
       32, 115, 99, 97, 110, 110, 97, 98, 108, 101, 10, 45, 32, 73, 110, 99, 108, 117, 100,
       101, 32, 115, 101, 99, 116, 105, 111, 110, 115, 58, 32, 67, 79, 78, 84, 65, 67, 84,
       32, 73, 78, 70, 79, 44, 32, 69, 68, 85, 67, 65, 84, 73, 79, 78, 44, 32, 84, 69, 67,
       72, 78, 73, 67, 65, 76, 32, 83, 75, 73, 76, 76, 83, 44, 32, 69, 88, 80, 69, 82, 73,
       69, 78, 67, 69, 44, 32, 67, 69, 82, 84, 73, 70, 73, 67, 65, 84, 73, 79, 78, 83, 10,
       45, 32, 77, 97, 107, 101, 32, 105, 116, 32, 99, 111, 110, 99, 105, 115, 101, 32, 98,
       117, 116, 32, 99, 111, 109, 112, 114, 101, 104, 101, 110, 115, 105, 118, 101, 10,
       45, 32, 85, 115, 101, 32, 97, 99, 116, 105, 111, 110, 32, 118, 101, 114, 98, 115,
       32, 97, 110, 100, 32, 113, 117, 97, 110, 116, 105, 102, 121, 32, 97, 99, 104, 105,
       101, 118, 101, 109, 101, 110, 116, 115, 32, 119, 104, 101, 114, 101, 32, 112, 111,
       115, 115, 105, 98, 108, 101, 10, 10, 71, 101, 110, 101, 114, 97, 116, 101, 32, 97,
       32, 99, 111, 109, 112, 108, 101, 116, 101, 44, 32, 112, 114, 111, 102, 101, 115,
       115, 105, 111, 110, 97, 108, 32, 114, 101, 115, 117, 109, 101, 46 >>

\* "Create a technical resume optimized for software engineering..." and the blank line after it
PromptHead_technical ==
    << 67, 114, 101, 97, 116, 101, 32, 97, 32, 116, 101, 99, 104, 110, 105, 99, 97, 108,
       32, 114, 101, 115, 117, 109, 101, 32, 111, 112, 116, 105, 109, 105, 122, 101, 100,
       32, 102, 111, 114, 32, 115, 111, 102, 116, 119, 97, 114, 101, 32, 101, 110, 103,
       105, 110, 101, 101, 114, 105, 110, 103, 32, 114, 111, 108, 101, 115, 46, 32, 85,
       115, 101, 32, 116, 104, 101, 32, 102, 111, 108, 108, 111, 119, 105, 110, 103, 32,
       105, 110, 102, 111, 114, 109, 97, 116, 105, 111, 110, 58, 10, 10 >>

\* "\n\nFormat requirements:\n- ..." to "Generate a complete, technical resume."
PromptTail_technical ==
    << 10, 10, 70, 111, 114, 109, 97, 116, 32, 114, 101, 113, 117, 105, 114, 101, 109, 101,
       110, 116, 115, 58, 10, 45, 32, 69, 109, 112, 104, 97, 115, 105, 122, 101, 32, 116,
       101, 99, 104, 110, 105, 99, 97, 108, 32, 115, 107, 105, 108, 108, 115, 32, 97, 110,
       100, 32, 112, 114, 111, 106, 101, 99, 116, 115, 10, 45, 32, 85, 115, 101, 32, 65,
       76, 76, 32, 67, 65, 80, 83, 32, 102, 111, 114, 32, 115, 101, 99, 116, 105, 111, 110,
       32, 104, 101, 97, 100, 101, 114, 115, 10, 45, 32, 73, 110, 99, 108, 117, 100, 101,
       32, 115, 101, 99, 116, 105, 111, 110, 115, 58, 32, 67, 79, 78, 84, 65, 67, 84, 32,
       73, 78, 70, 79, 44, 32, 84, 69, 67, 72, 78, 73, 67, 65, 76, 32, 83, 75, 73, 76, 76,
       83, 44, 32, 69, 88, 80, 69, 82, 73, 69, 78, 67, 69, 44, 32, 69, 68, 85, 67, 65, 84,
       73, 79, 78, 44, 32, 67, 69, 82, 84, 73, 70, 73, 67, 65, 84, 73, 79, 78, 83, 10, 45,
       32, 72, 105, 103, 104, 108, 105, 103, 104, 116, 32, 112, 114, 111, 103, 114, 97,
       109, 109, 105, 110, 103, 32, 108, 97, 110, 103, 117, 97, 103, 101, 115, 44, 32, 102,
       114, 97, 109, 101, 119, 111, 114, 107, 115, 44, 32, 97, 110, 100, 32, 116, 111, 111,
       108, 115, 10, 45, 32, 70, 111, 99, 117, 115, 32, 111, 110, 32, 116, 101, 99, 104,
       110, 105, 99, 97, 108, 32, 97, 99, 104, 105, 101, 118, 101, 109, 101, 110, 116, 115,
       32, 97, 110, 100, 32, 105, 109, 112, 97, 99, 116, 10, 45, 32, 85, 115, 101, 32, 109,
       101, 116, 114, 105, 99, 115, 32, 97, 110, 100, 32, 110, 117, 109, 98, 101, 114, 115,
       32, 119, 104, 101, 114, 101, 32, 112, 111, 115, 115, 105, 98, 108, 101, 10, 10, 71,
       101, 110, 101, 114, 97, 116, 101, 32, 97, 32, 99, 111, 109, 112, 108, 101, 116, 101,
       44, 32, 116, 101, 99, 104, 110, 105, 99, 97, 108, 32, 114, 101, 115, 117, 109, 101,
       46 >>

\* "Create a creative but professional resume with engaging lang..." and the blank line after it
PromptHead_creative ==
    << 67, 114, 101, 97, 116, 101, 32, 97, 32, 99, 114, 101, 97, 116, 105, 118, 101, 32,
       98, 117, 116, 32, 112, 114, 111, 102, 101, 115, 115, 105, 111, 110, 97, 108, 32,
       114, 101, 115, 117, 109, 101, 32, 119, 105, 116, 104, 32, 101, 110, 103, 97, 103,
       105, 110, 103, 32, 108, 97, 110, 103, 117, 97, 103, 101, 46, 32, 85, 115, 101, 32,
       116, 104, 101, 32, 102, 111, 108, 108, 111, 119, 105, 110, 103, 32, 105, 110, 102,
       111, 114, 109, 97, 116, 105, 111, 110, 58, 10, 10 >>

\* "\n\nFormat requirements:\n- ..." to "Generate a complete, creative resume."
PromptTail_creative ==
    << 10, 10, 70, 111, 114, 109, 97, 116, 32, 114, 101, 113, 117, 105, 114, 101, 109, 101,
       110, 116, 115, 58, 10, 45, 32, 85, 115, 101, 32, 100, 121, 110, 97, 109, 105, 99,
       32, 97, 99, 116, 105, 111, 110, 32, 119, 111, 114, 100, 115, 10, 45, 32, 83, 104,
       111, 119, 32, 112, 101, 114, 115, 111, 110, 97, 108, 105, 116, 121, 32, 119, 104,
       105, 108, 101, 32, 109, 97, 105, 110, 116, 97, 105, 110, 105, 110, 103, 32, 112,
       114, 111, 102, 101, 115, 115, 105, 111, 110, 97, 108, 105, 115, 109, 10, 45, 32, 85,
       115, 101, 32, 65, 76, 76, 32, 67, 65, 80, 83, 32, 102, 111, 114, 32, 115, 101, 99,
       116, 105, 111, 110, 32, 104, 101, 97, 100, 101, 114, 115, 10, 45, 32, 73, 110, 99,
       108, 117, 100, 101, 32, 115, 101, 99, 116, 105, 111, 110, 115, 58, 32, 67, 79, 78,
       84, 65, 67, 84, 32, 73, 78, 70, 79, 44, 32, 83, 85, 77, 77, 65, 82, 89, 44, 32, 69,
       88, 80, 69, 82, 73, 69, 78, 67, 69, 44, 32, 83, 75, 73, 76, 76, 83, 44, 32, 69, 68,
       85, 67, 65, 84, 73, 79, 78, 44, 32, 67, 69, 82, 84, 73, 70, 73, 67, 65, 84, 73, 79,
       78, 83, 10, 45, 32, 73, 110, 99, 108, 117, 100, 101, 32, 97, 32, 98, 114, 105, 101,
       102, 32, 112, 114, 111, 102, 101, 115, 115, 105, 111, 110, 97, 108, 32, 115, 117,
       109, 109, 97, 114, 121, 10, 45, 32, 72, 105, 103, 104, 108, 105, 103, 104, 116, 32,
       117, 110, 105, 113, 117, 101, 32, 97, 99, 104, 105, 101, 118, 101, 109, 101, 110,
       116, 115, 32, 97, 110, 100, 32, 118, 97, 108, 117, 101, 32, 112, 114, 111, 112, 111,
       115, 105, 116, 105, 111, 110, 115, 10, 10, 71, 101, 110, 101, 114, 97, 116, 101, 32,
       97, 32, 99, 111, 109, 112, 108, 101, 116, 101, 44, 32, 99, 114, 101, 97, 116, 105,
       118, 101, 32, 114, 101, 115, 117, 109, 101, 46 >>

\* "Create an academic-style resume with detailed education focu..." and the blank line after it
PromptHead_academic ==
    << 67, 114, 101, 97, 116, 101, 32, 97, 110, 32, 97, 99, 97, 100, 101, 109, 105, 99, 45,
       115, 116, 121, 108, 101, 32, 114, 101, 115, 117, 109, 101, 32, 119, 105, 116, 104,
       32, 100, 101, 116, 97, 105, 108, 101, 100, 32, 101, 100, 117, 99, 97, 116, 105, 111,
       110, 32, 102, 111, 99, 117, 115, 46, 32, 85, 115, 101, 32, 116, 104, 101, 32, 102,
       111, 108, 108, 111, 119, 105, 110, 103, 32, 105, 110, 102, 111, 114, 109, 97, 116,
       105, 111, 110, 58, 10, 10 >>

\* "\n\nFormat requirements:\n- ..." to "Generate a complete, academic resume."
PromptTail_academic ==
    << 10, 10, 70, 111, 114, 109, 97, 116, 32, 114, 101, 113, 117, 105, 114, 101, 109, 101,
       110, 116, 115, 58, 10, 45, 32, 69, 109, 112, 104, 97, 115, 105, 122, 101, 32, 101,
       100, 117, 99, 97, 116, 105, 111, 110, 44, 32, 114, 101, 115, 101, 97, 114, 99, 104,
       44, 32, 97, 110, 100, 32, 97, 99, 97, 100, 101, 109, 105, 99, 32, 97, 99, 104, 105,
       101, 118, 101, 109, 101, 110, 116, 115, 10, 45, 32, 85, 115, 101, 32, 65, 76, 76,
       32, 67, 65, 80, 83, 32, 102, 111, 114, 32, 115, 101, 99, 116, 105, 111, 110, 32,
       104, 101, 97, 100, 101, 114, 115, 10, 45, 32, 73, 110, 99, 108, 117, 100, 101, 32,
       115, 101, 99, 116, 105, 111, 110, 115, 58, 32, 67, 79, 78, 84, 65, 67, 84, 32, 73,
       78, 70, 79, 44, 32, 69, 68, 85, 67, 65, 84, 73, 79, 78, 44, 32, 82, 69, 83, 69, 65,
       82, 67, 72, 32, 69, 88, 80, 69, 82, 73, 69, 78, 67, 69, 44, 32, 83, 75, 73, 76, 76,
       83, 44, 32, 67, 69, 82, 84, 73, 70, 73, 67, 65, 84, 73, 79, 78, 83, 10, 45, 32, 73,
       110, 99, 108, 117, 100, 101, 32, 71, 80, 65, 32, 105, 102, 32, 109, 101, 110, 116,
       105, 111, 110, 101, 100, 32, 105, 110, 32, 101, 100, 117, 99, 97, 116, 105, 111,
       110, 10, 45, 32, 70, 111, 99, 117, 115, 32, 111, 110, 32, 97, 99, 97, 100, 101, 109,
       105, 99, 32, 99, 111, 110, 116, 114, 105, 98, 117, 116, 105, 111, 110, 115, 32, 97,
       110, 100, 32, 115, 99, 104, 111, 108, 97, 114, 108, 121, 32, 119, 111, 114, 107, 10,
       10, 71, 101, 110, 101, 114, 97, 116, 101, 32, 97, 32, 99, 111, 109, 112, 108, 101,
       116, 101, 44, 32, 97, 99, 97, 100, 101, 109, 105, 99, 32, 114, 101, 115, 117, 109,
       101, 46 >>
create_resume_prompt(data, style) ==
    IF style = "professional"
        THEN PromptHead_professional \o base_info(data) \o PromptTail_professional
    ELSE IF style = "technical"
        THEN PromptHead_technical \o base_info(data) \o PromptTail_technical
    ELSE IF style = "creative"
        THEN PromptHead_creative \o base_info(data) \o PromptTail_creative
    ELSE PromptHead_academic \o base_info(data) \o PromptTail_academic

\* The profiles validation accepts, each with any of its optional keys
\* location, linkedin, github, certifications left out of the dict.
Restrict(data, keys) == [f \in keys |-> data[f]]

PromptProfiles ==
    { Restrict(data, Fields \ A) :
        data \in {d \in Profiles : validate(d).exc = "none"},
        A \in SUBSET {"location", "linkedin", "github", "certifications"} }

PromptIdle ==
    /\ p_stage = "off"
    /\ p_data = BaseProfile
    /\ p_style = "professional"
    /\ p_prompt = <<>>

\* create_resume_prompt(p_data, p_style)
BuildPrompt ==
    /\ p_stage = "input"
    /\ p_prompt' = create_resume_prompt(p_data, p_style)
    /\ p_stage' = "built"
    /\ UNCHANGED <<p_data, p_style, nonPromptVars>>

(***************************************************************************)
(* Python's case methods and split, for export_as_pdf.                     *)
(***************************************************************************)
\* str.isupper / str.islower of one character
UpperChars == (65..90) \cup (192..214) \cup (216..222) \cup {321, 376, 924, 8551}
LowerChars ==
    (97..122) \cup {170, 181, 186} \cup (223..246) \cup (248..255) \cup {305, 322, 383}

\* str.isupper: a cased character, and no lowercase one
isupper(s) ==
    /\ \E i \in 1..Len(s) : s[i] \in UpperChars
    /\ \A i \in 1..Len(s) : s[i] \notin LowerChars

\* str.upper of one character: a text, as U+00DF becomes "SS"
upper_char(c) ==
    IF c \in (97..122) \cup (224..246) \cup (248..254) THEN <<c - 32>>
    ELSE IF c = 181 THEN <<924>>
    ELSE IF c = 223 THEN <<83, 83>>
    ELSE IF c = 255 THEN <<376>>
    ELSE IF c = 305 THEN <<73>>
    ELSE IF c = 322 THEN <<321>>
    ELSE IF c = 383 THEN <<83>>
    ELSE <<c>>

RECURSIVE upper(_)
upper(s) == IF s = <<>> THEN <<>> ELSE upper_char(Head(s)) \o upper(Tail(s))

\* str.split('\n')
RECURSIVE split_lines(_)
split_lines(s) ==
    LET at == {i \in 1..Len(s) : s[i] = 10}
    IN  IF at = {} THEN <<s>>
        ELSE LET i == CHOOSE k \in at : \A j \in at : k <= j
             IN  <<SubSeq(s, 1, i - 1)>> \o split_lines(DropFirst(s, i))

\* sep.join(parts)
RECURSIVE join(_, _)
join(parts, sep) ==
    IF parts = <<>> THEN <<>>
    ELSE IF Len(parts) = 1 THEN parts[1]
    ELSE parts[1] \o sep \o join(Tail(parts), sep)

(***************************************************************************)
(* export_as_pdf (app.py:339-467).  What reaches the page is recorded as   *)
(* cells (the page header) and blocks (the body), each with its font.      *)
(***************************************************************************)
Cell(text, style, size) == [text |-> text, font |-> "Arial", style |-> style, size |-> size]

\* The truthy values of the keys, sanitized, in order (lines 351-357).
present(data, keys) ==
    SelectSeq(keys, LAMBDA k : get(data, k, <<>>) /= <<>>)

Bar == <<32, 124, 32>>    \* " | "

\* EnhancedPDF.header (lines 343-374), run by add_page
header_cells(data) ==
    LET contact == present(data, <<"phone", "email", "location">>)
        social == present(data, <<"linkedin", "github">>)
        social_label(k) == IF k = "linkedin" THEN <<76, 105, 110, 107, 101, 100, 73, 110, 58, 32>>    \* "LinkedIn: "
                           ELSE <<71, 105, 116, 72, 117, 98, 58, 32>>                      \* "GitHub: "
    IN  << Cell(clean_text_for_pdf(upper(data.name)), "B", 20),
           Cell(join([i \in 1..Len(contact) |-> clean_text_for_pdf(data[contact[i]])], Bar),
                "", 11) >>
        \o ( IF social = <<>> THEN <<>>
             ELSE << Cell(join([i \in 1..Len(social) |->
                                   social_label(social[i])
                                       \o clean_text_for_pdf(data[social[i]])], Bar),
                          "", 10) >> )

\* The test of line 426: the line repeats the page header.
repeats_header(line, data) ==
    \/ contains(line, clean_text_for_pdf(upper(data.name)))
    \/ contains(line, clean_text_for_pdf(data.phone))
    \/ contains(line, clean_text_for_pdf(data.email))

\* line.isupper() and len(line) < 50 (lines 428 and 437)
looks_like_header(line) == isupper(line) /\ Len(line) < 50

\* The branch lines 437-452 take for a line: "heading", "bullet", "paragraph".
line_kind(line) ==
    IF looks_like_header(line) /\ ~startswith(line, <<45>>) /\ ~startswith(line, <<42>>)
        THEN "heading"
    ELSE IF \/ startswith(line, <<45, 32>>)
            \/ startswith(line, <<42, 32>>)
            \/ startswith(line, <<43, 32>>)
        THEN "bullet"
    ELSE "paragraph"

\* render setting its blocks in Times.
render_in_times(line, size) ==
    IF line_kind(line) = "heading"
        THEN [kind |-> "heading", text |-> clean_text_for_pdf(line),
              font |-> "Times", style |-> "B", size |-> 13]
    ELSE IF line_kind(line) = "bullet"
        THEN [kind |-> "bullet",
              text |-> clean_text_for_pdf(IF Len(line) > 2 THEN strip(DropFirst(line, 2))
                                          ELSE line),
              font |-> "Times", style |-> "", size |-> size]
    ELSE [kind |-> "paragraph", text |-> clean_text_for_pdf(line),
          font |-> "Times", style |-> "", size |-> size]

\* The block lines 437-452 render for a line.
render(line, size) ==
    IF line_kind(line) = "heading"
        THEN [kind |-> "heading", text |-> clean_text_for_pdf(line),
              font |-> "Arial", style |-> "B", size |-> 13]
    ELSE IF line_kind(line) = "bullet"
        THEN [kind |-> "bullet",
              text |-> clean_text_for_pdf(IF Len(line) > 2 THEN strip(DropFirst(line, 2))
                                          ELSE line),
              font |-> "Arial", style |-> "", size |-> size]
    ELSE [kind |-> "paragraph", text |-> clean_text_for_pdf(line),
          font |-> "Arial", style |-> "", size |-> size]

\* line_fate without the header-skip mode: every non-blank line is rendered.
line_fate_no_skip(raw, data, skipping) ==
    IF strip(raw) = <<>> THEN "blank" ELSE "rendered"

\* What one iteration of the loop of lines 414-452 does with a line:
\* "blank", "dropped" (the header-skip mode swallows it) or "rendered".
line_fate(raw, data, skipping) ==
    IF strip(raw) = <<>> THEN "blank"
    ELSE IF skipping /\ repeats_header(strip(raw), data) THEN "dropped"
    ELSE IF skipping /\ ~looks_like_header(strip(raw)) THEN "dropped"
    ELSE "rendered"

\* str.isalnum
AlnumChars == AlphaChars \cup DigitChars \cup {188, 189, 190, 8531, 8551}

\* strftime("%Y%m%d_%H%M%S") of the moment of the call
Timestamp == <<50, 48, 50, 54, 49, 48, 50, 57, 95, 49, 57, 48, 48, 48, 48>>    \* "20261029_190000"

\* Lines 455-458 and 465: the preferred and the fallback file name.
safe_name(data) ==
    LET underscored == str_replace(clean_text_for_pdf(data.name), 32, <<95>>)
    IN  SelectSeq(underscored, LAMBDA c : c \in AlnumChars \/ c \in {45, 95})

filename(data) ==
    <<114, 101, 115, 117, 109, 101, 95>> \o safe_name(data) \o <<95>> \o Timestamp \o <<46, 112, 100, 102>>
                                                     \* "resume_" ... "_" ... ".pdf"
simple_filename == <<114, 101, 115, 117, 109, 101, 95>> \o Timestamp \o <<46, 112, 100, 102>>

(***************************************************************************)
(* The inputs of export_as_pdf: the profile, the generated text, the font. *)
(***************************************************************************)
\* Jane Doe under four names and with her email in capitals; validation
\* accepts each of them.
PdfProfiles ==
    { [BaseProfile EXCEPT !.name = n] :
        n \in { <<74, 97, 110, 101, 32, 68, 111, 101>>,            \* "Jane Doe"
                <<74, 65, 78, 69>>,                            \* "JANE"
                <<74, 65, 78, 69, 32>>,                        \* "JANE "
                <<90, 111, 235>> } }                        \* "Zo\u00eb"
    \cup { [BaseProfile EXCEPT !.email = <<74, 65, 78, 69, 64, 69, 88, 46, 67, 79, 77>>] }
                                                               \* "JANE@EX.COM"

\* The lines a generated text is made of: the profile's name, phone and
\* email as submitted, a section header, two bullets, a paragraph, a blank.
LineVocabulary(data) ==
    { data.name, data.phone, data.email,
      <<69, 88, 80, 69, 82, 73, 69, 78, 67, 69>>,                      \* "EXPERIENCE"
      <<45, 32, 68, 105, 100, 32, 88>>,                                    \* "- Did X"
      <<43, 32, 65, 68, 68, 69, 68>>,                                    \* "+ ADDED"
      <<76, 101, 100, 32, 116, 101, 97, 109>>,                         \* "Led team"
      <<>> }

\* The texts of at most MaxLines lines, each line but the last ended by "\n".
PdfTexts(data) ==
    { join(ls, <<10>>) : ls \in UNION {[1..n -> LineVocabulary(data)] : n \in 0..MaxLines} }

\* (font_family, font_size) as main passes them (lines 742-743)
FontChoices == {<<"Arial", 11>>, <<"Times", 12>>}

NoSection == [none |-> TRUE, title |-> <<>>]
NoResult == [exc |-> "pending", value |-> <<>>]

PdfIdle ==
    /\ d_pc = "off"
    /\ d_user = BaseProfile
    /\ d_text = <<>>
    /\ d_font = <<"Arial", 11>>
    /\ d_cells = <<>>
    /\ d_lines = <<>>
    /\ d_i = 0
    /\ skip_header = TRUE
    /\ current_section = NoSection
    /\ blocks = <<>>
    /\ trail = <<>>
    /\ d_writes = <<>>
    /\ d_result = NoResult

\* export_as_pdf up to its loop (lines 402-412): the first page with its
\* header, the sanitized text split into lines.
ExportStart ==
    /\ d_pc = "called"
    /\ d_cells' = header_cells(d_user)
    /\ d_lines' = split_lines(clean_text_for_pdf(d_text))
    /\ d_i' = 1
    /\ skip_header' = TRUE
    /\ current_section' = NoSection
    /\ d_pc' = "lines"
    /\ UNCHANGED <<d_user, d_text, d_font, blocks, trail, d_writes, d_result, nonPdfVars>>

\* One iteration of the loop of lines 414-452, on line d_i; after the last
\* line the file name is made (lines 455-458).
ProcessLine ==
    /\ d_pc = "lines"
    /\ d_i <= Len(d_lines)
    /\ LET line == strip(d_lines[d_i])
           fate == line_fate(d_lines[d_i], d_user, skip_header)
       IN  /\ trail' = Append(trail, [skip |-> skip_header, fate |-> fate])
           /\ IF fate = "rendered"
              THEN /\ skip_header' = FALSE
                   /\ blocks' = Append(blocks, render(line, d_font[2]))
                   /\ current_section' =
                         IF line_kind(line) = "heading"
                         THEN [none |-> FALSE, title |-> line]
                         ELSE current_section
              ELSE UNCHANGED <<skip_header, blocks, current_section>>
    /\ d_i' = d_i + 1
    /\ d_pc' = IF d_i = Len(d_lines) THEN "write" ELSE "lines"
    /\ UNCHANGED <<d_user, d_text, d_font, d_cells, d_lines, d_writes, d_result,
                   nonPdfVars>>

\* pdf.output(filename) of line 461 succeeds (ok) and the name is returned,
\* or raises and the handler of line 463 takes over.
WritePreferred(ok) ==
    /\ d_pc = "write"
    /\ d_writes' = Append(d_writes, [name |-> filename(d_user), ok |-> ok])
    /\ IF ok
       THEN /\ d_result' = [exc |-> "none", value |-> filename(d_user)]
            /\ d_pc' = "done"
       ELSE /\ d_pc' = "fallback"
            /\ UNCHANGED d_result
    /\ UNCHANGED <<d_user, d_text, d_font, d_cells, d_lines, d_i, skip_header,
                   current_section, blocks, trail, nonPdfVars>>

\* WriteFallback with a handler that swallows the second failure and
\* returns the fallback name all the same.
WriteFallback_swallowing(ok) ==
    /\ d_pc = "fallback"
    /\ d_writes' = Append(d_writes, [name |-> simple_filename, ok |-> ok])
    /\ d_result' = [exc |-> "none", value |-> simple_filename]
    /\ d_pc' = "done"
    /\ UNCHANGED <<d_user, d_text, d_font, d_cells, d_lines, d_i, skip_header,
                   current_section, blocks, trail, nonPdfVars>>

\* pdf.output(simple_filename) of line 466 succeeds (ok) and the name is
\* returned, or its exception leaves export_as_pdf.
WriteFallback(ok) ==
    /\ d_pc = "fallback"
    /\ d_writes' = Append(d_writes, [name |-> simple_filename, ok |-> ok])
    /\ d_result' = IF ok THEN [exc |-> "none", value |-> simple_filename]
                   ELSE [exc |-> "Exception", value |-> <<>>]
    /\ d_pc' = "done"
    /\ UNCHANGED <<d_user, d_text, d_font, d_cells, d_lines, d_i, skip_header,
                   current_section, blocks, trail, nonPdfVars>>


(***************************************************************************)
(* export_as_pdf as one call: what it puts on the page and what it         *)
(* returns, given whether its first and second pdf.output succeed.         *)
(***************************************************************************)
\* The loop of lines 414-452 over the lines left, in or out of the mode.
RECURSIVE body_blocks(_, _, _, _)
body_blocks(lines, data, font_size, skipping) ==
    IF lines = <<>> THEN <<>>
    ELSE LET fate == line_fate(Head(lines), data, skipping)
         IN  ( IF fate = "rendered" THEN <<render(strip(Head(lines)), font_size)>>
               ELSE <<>> )
             \o body_blocks(Tail(lines), data, font_size,
                            skipping /\ fate /= "rendered")

\* Lines 460-467: the name of the write that succeeded, or the exception
\* of the second write.
export_result(data, write_ok) ==
    IF write_ok[1] THEN [exc |-> "none", value |-> filename(data)]
    ELSE IF write_ok[2] THEN [exc |-> "none", value |-> simple_filename]
    ELSE [exc |-> "Exception", value |-> <<>>]

export_as_pdf(text, data, font_family, font_size, write_ok) ==
    [ cells |-> header_cells(data),
      blocks |-> body_blocks(split_lines(clean_text_for_pdf(text)), data, font_size, TRUE),
      writes |-> IF write_ok[1] THEN <<[name |-> filename(data), ok |-> TRUE]>>
                 ELSE <<[name |-> filename(data), ok |-> FALSE],
                        [name |-> simple_filename, ok |-> write_ok[2]]>>,
      result |-> export_result(data, write_ok) ]

\* The font names main can pass (get_config, AVAILABLE_FONTS) and the sizes
\* of the slider.
FontFamilies == {"Arial", "Times", "Helvetica"}
FontSizes == 9..14

(***************************************************************************)
(* main's submission handler (app.py:700-792), run once against a mocked   *)
(* endpoint: generate_resume, then the three download buttons.             *)
(***************************************************************************)
\* get_config (lines 102-124)
AVAILABLE_MODELS ==
    [ m \in {"Mistral Large", "Meta Llama 3 405B Instruct", "IBM Granite 13B Instruct",
             "IBM Granite 20B Instruct"} |->
        IF m = "Mistral Large" THEN "mistralai/mistral-large"
        ELSE IF m = "Meta Llama 3 405B Instruct" THEN "meta-llama/llama-3-405b-instruct"
        ELSE IF m = "IBM Granite 13B Instruct" THEN "ibm/granite-13b-instruct-v2"
        ELSE "ibm/granite-20b-instruct-v1" ]

AVAILABLE_FONTS ==
    [ f \in {"Arial", "Times New Roman", "Helvetica", "Calibri"} |->
        IF f = "Times New Roman" THEN "Times"
        ELSE IF f = "Helvetica" THEN "Helvetica"
        ELSE "Arial" ]

RESUME_TEMPLATES ==
    [ s \in {"Professional", "Creative", "Technical", "Academic"} |->
        IF s = "Professional" THEN "professional"
        ELSE IF s = "Creative" THEN "creative"
        ELSE IF s = "Technical" THEN "technical"
        ELSE "academic" ]

\* generate_resume (lines 191-262) against the endpoint: how it ends, and
\* the prompt it built on the way.
generate_resume(data, style, endpoint) ==
    IF validate(data).exc /= "none"
        THEN [outcome |-> validate(data), prompt |-> <<>>]
    ELSE IF get_iam_token(endpoint.token).exc /= "none"
        THEN [outcome |-> get_iam_token(endpoint.token),
              prompt |-> create_resume_prompt(data, style)]
    ELSE [outcome |-> safe_api_call(generate(endpoint.gen)),
          prompt |-> create_resume_prompt(data, style)]

\* str.replace(' ', '_') of the name, or 'resume' (lines 749, 759, 781)
download_stem(name) == IF name /= <<>> THEN str_replace(name, 32, <<95>>) ELSE <<114, 101, 115, 117, 109, 101>>

DateStamp == <<50, 48, 50, 54, 49, 48, 50, 57>>           \* strftime('%Y%m%d')
IsoTimestamp == <<50, 48, 50, 54, 45, 49, 48, 45, 50, 57, 84, 49, 57, 58, 48, 48, 58, 48, 48>>
                                                         \* datetime.now().isoformat()

\* The dict of lines 764-774, which json.dumps serializes.
resume_data(data, text, settings) ==
    [ user_data |-> data,
      generated_text |-> text,
      settings |-> [ model |-> settings.model, template |-> settings.template,
                     font |-> settings.font, font_size |-> settings.font_size ],
      timestamp |-> IsoTimestamp ]

\* The exception of pdf.output (line 467) and of open (line 745), as main
\* catches it; its str(e) stands as a word.
PdfFailed == Raised("Exception", <<"str(e) of pdf.output">>)
OpenFailed == Raised("OSError", <<"str(e) of open">>)

\* The settings of a form left as it loads: the first option of each
\* selectbox and the value of the slider (lines 561-591).
FormDefaults ==
    [model |-> "Mistral Large", template |-> "Professional", font |-> "Arial", font_size |-> 11]

\* The template whose id (line 719) is style.
template_name(style) == CHOOSE t \in DOMAIN RESUME_TEMPLATES : RESUME_TEMPLATES[t] = style

\* The settings line of st.info (line 787).
settings_line(settings) ==
    <<"(bulb) Generated with: ", settings.model, " | ", settings.template, " template | ",
      settings.font, " ", ToString(settings.font_size), "pt">>

\* The messages main shows after st.success, on its way to the end of the
\* handler (lines 726-793): the settings line when the three buttons were
\* made, or what 'except Exception' shows when export_as_pdf raised or the
\* written file could not be opened.
after_success(data, settings, write_ok, open_ok) ==
    IF export_result(data, write_ok).exc /= "none" THEN main_display(PdfFailed)
    ELSE IF ~open_ok THEN main_display(OpenFailed)
    ELSE <<settings_line(settings)>>

\* The profile of the end-to-end scenario, as the form collects it, and the
\* same profile with a phone number validate_phone accepts.
ScenarioProfile ==
    [ name |-> <<74, 97, 110, 101, 32, 68, 111, 101>>, role |-> <<69, 110, 103, 105, 110, 101, 101, 114>>, phone |-> <<53, 53, 53, 45, 48, 49, 48, 48>>,
      email |-> <<106, 97, 110, 101, 64, 101, 120, 46, 99, 111, 109>>, location |-> <<>>, linkedin |-> <<>>, github |-> <<>>,
      skills |-> <<71, 111>>, experience |-> <<88>>, education |-> <<89>>, certifications |-> <<>> ]

MainProfiles ==
    { ScenarioProfile, [ScenarioProfile EXCEPT !.phone = BaseProfile.phone], BaseProfile }

MainSettings ==
    { [model |-> "Mistral Large", template |-> s, font |-> f[1], font_size |-> f[2]] :
        s \in DOMAIN RESUME_TEMPLATES, f \in {<<"Arial", 11>>, <<"Times New Roman", 12>>} }

\* The mocked endpoint: a token and any generation answer, or any answer to
\* the credential exchange.
GoodToken == [kind |-> "http", status |-> 200, text |-> "{...}", has_token |-> TRUE, token |-> 1]

MockEndpoints ==
    { [token |-> GoodToken, gen |-> g] : g \in GenResponses }
    \cup { [token |-> t, gen |-> NoResponse] : t \in TokenResponses(1) \ {GoodToken} }

NoPdf == [cells |-> <<>>, blocks |-> <<>>, writes |-> <<>>, result |-> NoResult]

MainIdle ==
    /\ m_pc = "off"
    /\ m_user = BaseProfile
    /\ m_settings = FormDefaults
    /\ m_endpoint = [token |-> NoResponse, gen |-> NoResponse]
    /\ m_prompt = <<>>
    /\ m_sent = <<>>
    /\ m_token = 0
    /\ m_outcome = NoOutcome
    /\ m_pdf = NoPdf
    /\ m_faults = {}
    /\ m_offered = <<>>
    /\ m_shown = <<>>

\* main calls generate_resume (lines 716-722), which validates the profile
\* (194-206): a rejected profile is the error main shows (789-790);
\* otherwise the prompt is built (209) and get_iam_token posts the
\* credential exchange (166-174) and waits for its answer.  st.secrets has
\* the two keys of lines 212-213: main stops before the form when it has
\* not (545-552).
Generate ==
    /\ m_pc = "submitted"
    /\ IF validate(m_user).exc /= "none"
       THEN /\ m_outcome' = validate(m_user)
            /\ m_shown' = m_shown \o main_display(validate(m_user))
            /\ m_pc' = "end"
            /\ UNCHANGED <<m_prompt, m_sent>>
       ELSE /\ m_prompt' = create_resume_prompt(m_user, RESUME_TEMPLATES[m_settings.template])
            /\ m_sent' = Append(m_sent, "iam")
            /\ m_pc' = "await_token"
            /\ UNCHANGED <<m_outcome, m_shown>>
    /\ UNCHANGED <<m_user, m_settings, m_endpoint, m_token, m_pdf, m_faults, m_offered,
                   nonMainVars>>

\* The credential exchange is answered (lines 176-188): its error is what
\* main shows, or the generation request is posted with the token
\* (233-241) and waited for.
TokenAnswered ==
    /\ m_pc = "await_token"
    /\ IF get_iam_token(m_endpoint.token).exc /= "none"
       THEN /\ m_outcome' = get_iam_token(m_endpoint.token)
            /\ m_shown' = m_shown \o main_display(get_iam_token(m_endpoint.token))
            /\ m_pc' = "end"
            /\ UNCHANGED <<m_sent, m_token>>
       ELSE /\ m_token' = get_iam_token(m_endpoint.token).value
            /\ m_sent' = Append(m_sent, "gen")
            /\ m_pc' = "await_gen"
            /\ UNCHANGED <<m_outcome, m_shown>>
    /\ UNCHANGED <<m_user, m_settings, m_endpoint, m_prompt, m_pdf, m_faults, m_offered,
                   nonMainVars>>

\* The generation request is answered (lines 243-262): generate_resume
\* returns the text and main shows the success message (724), or it raises
\* and main shows the error (789-790).
GenerationAnswered ==
    /\ m_pc = "await_gen"
    /\ m_outcome' = safe_api_call(generate(m_endpoint.gen))
    /\ m_shown' = m_shown \o main_display(safe_api_call(generate(m_endpoint.gen)))
    /\ m_pc' = IF safe_api_call(generate(m_endpoint.gen)).exc = "none" THEN "pdf" ELSE "end"
    /\ UNCHANGED <<m_user, m_settings, m_endpoint, m_prompt, m_sent, m_token, m_pdf,
                   m_faults, m_offered, nonMainVars>>

\* Lines 741-743 and 791-793: export_as_pdf, whose two pdf.output succeed
\* or not; its exception ends the handler.
ExportPdf(write_ok) ==
    /\ m_pc = "pdf"
    /\ LET r == export_as_pdf(m_outcome.value, m_user, AVAILABLE_FONTS[m_settings.font],
                              m_settings.font_size, write_ok)
       IN  /\ m_pdf' = r
           /\ m_faults' = m_faults
                            \cup (IF r.writes[1].ok THEN {} ELSE {"write1"})
                            \cup (IF r.result.exc = "none" THEN {} ELSE {"write2"})
           /\ IF r.result.exc = "none"
              THEN /\ m_pc' = "open"
                   /\ UNCHANGED m_shown
              ELSE /\ m_pc' = "end"
                   /\ m_shown' = m_shown \o main_display(PdfFailed)
    /\ UNCHANGED <<m_user, m_settings, m_endpoint, m_prompt, m_sent, m_token, m_outcome,
                   m_offered, nonMainVars>>

\* Lines 745-752: the written file is opened and the PDF button made, or
\* open raises and the handler ends.
OpenPdf(ok) ==
    /\ m_pc = "open"
    /\ IF ok
       THEN /\ m_offered' = Append(m_offered,
                   [kind |-> "pdf", data |-> m_pdf.result.value,
                    file_name |-> download_stem(m_user.name) \o <<95>> \o DateStamp
                                      \o <<46, 112, 100, 102>>])
            /\ m_pc' = "text"
            /\ UNCHANGED <<m_shown, m_faults>>
       ELSE /\ m_faults' = m_faults \cup {"open"}
            /\ m_shown' = m_shown \o main_display(OpenFailed)
            /\ m_pc' = "end"
            /\ UNCHANGED m_offered
    /\ UNCHANGED <<m_user, m_settings, m_endpoint, m_prompt, m_sent, m_token, m_outcome,
                   m_pdf, nonMainVars>>

\* Lines 754-762: the text button.
OfferText ==
    /\ m_pc = "text"
    /\ m_offered' = Append(m_offered,
          [kind |-> "text", data |-> m_outcome.value,
           file_name |-> download_stem(m_user.name) \o <<95>> \o DateStamp
                             \o <<46, 116, 120, 116>>])
    /\ m_pc' = "json"
    /\ UNCHANGED <<m_user, m_settings, m_endpoint, m_prompt, m_sent, m_token, m_outcome,
                   m_pdf, m_faults, m_shown, nonMainVars>>

\* Lines 764-787: the record, its button, and the settings line.
OfferJson ==
    /\ m_pc = "json"
    /\ m_offered' = Append(m_offered,
          [kind |-> "json", data |-> resume_data(m_user, m_outcome.value, m_settings),
           file_name |-> download_stem(m_user.name) \o <<95, 100, 97, 116, 97, 95>> \o DateStamp
                             \o <<46, 106, 115, 111, 110>>])
    /\ m_shown' = Append(m_shown, settings_line(m_settings))
    /\ m_pc' = "end"
    /\ UNCHANGED <<m_user, m_settings, m_endpoint, m_prompt, m_sent, m_token, m_outcome,
                   m_pdf, m_faults, nonMainVars>>

\* The user submits the form: main calls generate_resume, which validates
\* the profile, builds the prompt and posts the credential exchange
\* (lines 700-722, 191-215, 165-174).  st.secrets has the two keys of
\* lines 212-213: main stops before the form when it has not (545-552).
Submit(data, style) ==
    /\ pc = "idle"
    /\ calls < MaxCalls
    /\ calls' = calls + 1
    /\ user_data' = data
    /\ template_style' = style
    /\ IF validate(data).exc /= "none"
       THEN /\ outcome' = validate(data)
            /\ displayed' = main_display(validate(data))
            /\ pc' = "done"
            /\ UNCHANGED <<prompt_built, call_iam, iam_sent, passed>>
       ELSE /\ prompt_built' = TRUE
            /\ passed' = passed + 1
            /\ call_iam' = call_iam + 1
            /\ iam_sent' = iam_sent + 1
            /\ pc' = "await_token"
            /\ UNCHANGED <<outcome, displayed>>
    /\ UNCHANGED <<gen_sent, call_gen, token_resp, gen_resp, bearer, spent, nonGenVars>>

\* The credential exchange answers (or fails): get_iam_token returns the
\* token and generate_resume posts the generation request with it, or
\* the error reaches main (lines 176-188, 215-241).
TokenResponse(resp) ==
    /\ pc = "await_token"
    /\ token_resp' = resp
    /\ IF get_iam_token(resp).exc /= "none"
       THEN /\ outcome' = get_iam_token(resp)
            /\ displayed' = main_display(get_iam_token(resp))
            /\ pc' = "done"
            /\ UNCHANGED <<bearer, call_gen, gen_sent>>
       ELSE /\ bearer' = get_iam_token(resp).value
            /\ call_gen' = call_gen + 1
            /\ gen_sent' = gen_sent + 1
            /\ pc' = "await_gen"
            /\ UNCHANGED <<outcome, displayed>>
    /\ UNCHANGED <<user_data, template_style, calls, passed, iam_sent, call_iam, prompt_built,
                   gen_resp, spent, nonGenVars>>

\* The generation endpoint answers (or fails): generate_resume returns the
\* text or raises (lines 243-262).  Its error is what main shows (789-790);
\* after its text main shows the success message (724) and, with no wait
\* in between, goes on to the end of the handler (726-793): export_as_pdf,
\* whose two pdf.output succeed or not, open, the buttons and the settings
\* line.  The form is as it loads but for the template, the one of
\* template_style.
GenResponse(resp, write_ok, open_ok) ==
    /\ pc = "await_gen"
    /\ gen_resp' = resp
    /\ outcome' = safe_api_call(generate(resp))
    /\ displayed' =
          main_display(safe_api_call(generate(resp)))
          \o ( IF safe_api_call(generate(resp)).exc = "none"
               THEN after_success(user_data,
                                  [FormDefaults EXCEPT !.template = template_name(template_style)],
                                  write_ok, open_ok)
               ELSE <<>> )
    /\ pc' = "done"
    /\ UNCHANGED <<user_data, template_style, calls, passed, iam_sent, gen_sent, call_iam,
                   call_gen, prompt_built, token_resp, bearer, spent, nonGenVars>>

\* The run is over; the form waits for the next submission.  Nothing of the
\* call is kept: the token it used is only remembered here as spent.
Finish ==
    /\ pc = "done"
    /\ pc' = "idle"
    /\ spent' = IF bearer = 0 THEN spent ELSE spent \cup {bearer}
    /\ call_iam' = 0
    /\ call_gen' = 0
    /\ prompt_built' = FALSE
    /\ token_resp' = NoResponse
    /\ gen_resp' = NoResponse
    /\ bearer' = 0
    /\ outcome' = NoOutcome
    /\ displayed' = <<>>
    /\ user_data' = BaseProfile
    /\ template_style' = "professional"
    /\ UNCHANGED <<calls, passed, iam_sent, gen_sent, nonGenVars>>

CleanInit ==
    /\ c_stage = "input"
    /\ c_text \in StringsUpTo(CleanAlphabet, MaxCleanLen)
    /\ c_replaced = <<>>
    /\ c_out = <<>>
    /\ c_again = <<>>
    /\ GenIdle
    /\ PromptIdle
    /\ PdfIdle
    /\ MainIdle

Init ==
    /\ pc = "idle"
    /\ user_data = BaseProfile
    /\ template_style = "professional"
    /\ calls = 0
    /\ passed = 0
    /\ iam_sent = 0
    /\ gen_sent = 0
    /\ call_iam = 0
    /\ call_gen = 0
    /\ prompt_built = FALSE
    /\ token_resp = NoResponse
    /\ gen_resp = NoResponse
    /\ bearer = 0
    /\ spent = {}
    /\ outcome = NoOutcome
    /\ displayed = <<>>
    /\ CleanIdle
    /\ PromptIdle
    /\ PdfIdle
    /\ MainIdle

Next ==
    \/ \E data \in Profiles, style \in Styles : Submit(data, style)
    \/ \E resp \in TokenResponses(iam_sent) : TokenResponse(resp)
    \/ \E resp \in GenResponses, write_ok \in BOOLEAN \X BOOLEAN, open_ok \in BOOLEAN :
            GenResponse(resp, write_ok, open_ok)
    \/ Finish

Spec == Init /\ [][Next]_vars

CleanNext == Clean \/ CleanAgain

CleanSpec == CleanInit /\ [][CleanNext]_vars

PromptInit ==
    /\ p_stage = "input"
    /\ p_data \in PromptProfiles
    /\ p_style \in Styles \cup {"modern"}
    /\ p_prompt = <<>>
    /\ CleanIdle
    /\ GenIdle
    /\ PdfIdle
    /\ MainIdle

PromptNext == BuildPrompt

PromptSpec == PromptInit /\ [][PromptNext]_vars

PdfInit ==
    /\ d_pc = "called"
    /\ d_user \in PdfProfiles
    /\ d_text \in PdfTexts(d_user)
    /\ d_font \in FontChoices
    /\ d_cells = <<>>
    /\ d_lines = <<>>
    /\ d_i = 0
    /\ skip_header = TRUE
    /\ current_section = NoSection
    /\ blocks = <<>>
    /\ trail = <<>>
    /\ d_writes = <<>>
    /\ d_result = NoResult
    /\ CleanIdle
    /\ GenIdle
    /\ PromptIdle
    /\ MainIdle

PdfNext ==
    \/ ExportStart
    \/ ProcessLine
    \/ \E ok \in BOOLEAN : WritePreferred(ok)
    \/ \E ok \in BOOLEAN : WriteFallback(ok)

PdfSpec == PdfInit /\ [][PdfNext]_vars

MainInit ==
    /\ m_pc = "submitted"
    /\ m_user \in MainProfiles
    /\ m_settings \in MainSettings
    /\ m_endpoint \in MockEndpoints
    /\ m_prompt = <<>>
    /\ m_sent = <<>>
    /\ m_token = 0
    /\ m_outcome = NoOutcome
    /\ m_pdf = NoPdf
    /\ m_faults = {}
    /\ m_offered = <<>>
    /\ m_shown = <<>>
    /\ CleanIdle
    /\ GenIdle
    /\ PromptIdle
    /\ PdfIdle

MainNext ==
    \/ Generate
    \/ TokenAnswered
    \/ GenerationAnswered
    \/ \E write_ok \in BOOLEAN \X BOOLEAN : ExportPdf(write_ok)
    \/ \E ok \in BOOLEAN : OpenPdf(ok)
    \/ OfferText
    \/ OfferJson

MainSpec == MainInit /\ [][MainNext]_vars


(***************************************************************************)
(* C1: a profile with name, role, phone or email empty after trimming, or  *)
(* with a malformed email or phone (the email "not-an-email", the phone    *)
(* "abc"), makes generate_resume end with a validation error, and at no    *)
(* point of the call is a credential-exchange or generation request sent.  *)
(***************************************************************************)
InCall == pc \in {"await_token", "await_gen", "done"}

ValidationMessages ==
    {"(x) Missing required fields: ", MsgInvalidEmail[1], MsgInvalidPhone[1]}

RequiredEmpty(data) ==
    \E f \in {"name", "role", "phone", "email"} : strip(data[f]) = <<>>

Malformed(data) ==
    \/ ~validate_email(data.email)
    \/ ~validate_phone(data.phone)
    \/ data.email = <<110, 111, 116, 45, 97, 110, 45, 101, 109, 97, 105, 108>>
    \/ data.phone = <<97, 98, 99>>

C1_InvalidProfileHalts ==
    (InCall /\ (RequiredEmpty(user_data) \/ Malformed(user_data))) =>
        /\ pc = "done"
        /\ outcome.exc = "ResumeGeneratorError"
        /\ Head(outcome.msg) \in ValidationMessages
        /\ displayed = <<outcome.msg>>
        /\ call_iam = 0
        /\ call_gen = 0
        /\ token_resp = NoResponse
        /\ gen_resp = NoResponse

\* The second call, after a first one that sent its requests, was made with
\* the email "not-an-email" and ended with the validation error.
C1_Witness ==
    /\ pc = "done"
    /\ calls = 2
    /\ iam_sent = 1
    /\ user_data.email = <<110, 111, 116, 45, 97, 110, 45, 101, 109, 97, 105, 108>>
    /\ outcome.msg = MsgInvalidEmail
    /\ call_iam = 0

(***************************************************************************)
(* C2: validation accepts a profile exactly when the UserProfile invariant *)
(* holds - name, role, phone, email non-empty after trimming, email and    *)
(* phone well formed, linkedin and github empty or a profile URL - so an   *)
(* empty optional field (skills, experience, education among them) never   *)
(* rejects, and a malformed linkedin or github never reaches the prompt    *)
(* builder or the network.                                                 *)
(***************************************************************************)
UserProfileInvariant(data) ==
    /\ \A f \in {"name", "role", "phone", "email"} : strip(data[f]) /= <<>>
    /\ validate_email(data.email)
    /\ validate_phone(data.phone)
    /\ validate_linkedin(data.linkedin)
    /\ validate_github(data.github)

C2_AcceptsExactlyTheInvariant ==
    InCall =>
        /\ prompt_built <=> UserProfileInvariant(user_data)
        /\ call_iam > 0 => UserProfileInvariant(user_data)

(***************************************************************************)
(* C3: each call sends at most one credential-exchange and at most one     *)
(* generation request, the latter only after its own exchange answered     *)
(* 200 and with the token that answer carried, a token no earlier call     *)
(* used; a successful call has sent exactly one of each; and the calls     *)
(* that passed validation so far have sent one exchange request each.      *)
(***************************************************************************)
C3_OneExchangeOneGeneration ==
    /\ call_iam <= 1
    /\ call_gen <= 1
    /\ call_gen = 1 =>
          /\ call_iam = 1
          /\ token_resp.kind = "http"
          /\ token_resp.status = 200
          /\ bearer = token_resp.token
          /\ bearer \notin spent
    /\ (pc = "done" /\ outcome.exc = "none") => (call_iam = 1 /\ call_gen = 1)
    /\ (pc = "done" /\ outcome.exc /= "none") => gen_sent <= iam_sent
    /\ (InCall /\ prompt_built) => call_iam = 1
    /\ iam_sent = passed

\* The second successful call: two exchanges, two generation requests, the
\* second with the second token.
C3_Witness ==
    /\ pc = "done"
    /\ outcome.exc = "none"
    /\ calls = 2
    /\ iam_sent = 2
    /\ gen_sent = 2
    /\ bearer = 2
    /\ spent = {1}

(***************************************************************************)
(* C4: the two responses decide the outcome.  Credential exchange: 400 ->  *)
(* malformed key, 401 -> authentication failure, 403 -> authorization      *)
(* failure, other non-200 -> generic server error.  Otherwise generation:  *)
(* 404 -> model unavailable, 403 -> authorization failure, 429 -> rate     *)
(* limited, other non-200 -> generic server error, and a 200 with results  *)
(* missing or empty, or with a text empty after trimming -> empty          *)
(* response.  The call returns only when both are 200 and the text is not  *)
(* empty, and returns the trimmed text.  The error of a class is the one   *)
(* whose message is that class's message, with or without the words        *)
(* safe_api_call puts before it (C5 is about those).                       *)
(***************************************************************************)
Cause(msg) ==
    IF msg /= <<>> /\ Head(msg) = MsgUnexpectedPrefix THEN Tail(msg) ELSE msg

ExpectedTokenMessage(resp) ==
    CASE resp.status = 400 -> MsgInvalidKey
      [] resp.status = 401 -> MsgAuthFailed
      [] resp.status = 403 -> MsgKeyDenied
      [] OTHER -> MsgIamError(resp.status, resp.text)

ExpectedGenMessage(resp) ==
    CASE resp.status = 404 -> MsgModelUnavailable
      [] resp.status = 403 -> MsgAccessDenied
      [] resp.status = 429 -> MsgRateLimit
      [] resp.status /= 200 -> MsgApiError(resp.status, resp.text)
      [] OTHER -> IF ~resp.has_results \/ resp.results = <<>>
                  THEN MsgNoResponse ELSE MsgEmptyResponse

HasText(resp) ==
    /\ resp.has_results
    /\ resp.results /= <<>>
    /\ \E i \in 1..Len(resp.results[1]) : ~isspace(resp.results[1][i])

C4_OutcomeByStatus ==
    pc = "done" =>
        /\ (token_resp.kind = "http" /\ token_resp.status /= 200) =>
              /\ outcome.exc = "ResumeGeneratorError"
              /\ Cause(outcome.msg) = ExpectedTokenMessage(token_resp)
              /\ gen_resp = NoResponse
        /\ (gen_resp.kind = "http" /\ (gen_resp.status /= 200 \/ gen_resp.json)
                /\ ~(gen_resp.status = 200 /\ HasText(gen_resp))) =>
              /\ outcome.exc = "ResumeGeneratorError"
              /\ Cause(outcome.msg) = ExpectedGenMessage(gen_resp)
        /\ outcome.exc = "none" =>
              /\ token_resp.kind = "http" /\ token_resp.status = 200
              /\ gen_resp.kind = "http" /\ gen_resp.status = 200
              /\ HasText(gen_resp)
              /\ outcome.value /= <<>>
              /\ ~isspace(Head(outcome.value))
              /\ ~isspace(outcome.value[Len(outcome.value)])
              /\ contains(gen_resp.results[1], outcome.value)
        /\ (gen_resp.kind = "http" /\ gen_resp.status = 200 /\ gen_resp.json
                /\ HasText(gen_resp)) => outcome.exc = "none"

\* The exchange answered 200 and the generation request 429: rate limited.
C4_Witness ==
    /\ pc = "done"
    /\ token_resp.kind = "http"
    /\ token_resp.status = 200
    /\ gen_resp.kind = "http"
    /\ gen_resp.status = 429
    /\ Cause(outcome.msg) = MsgRateLimit

(***************************************************************************)
(* C5: a classified failure of the credential exchange or the generation   *)
(* call (authentication, authorization, rate limit, model unavailable) is  *)
(* shown to the user verbatim, never as or inside the catch-all            *)
(* "Unexpected error".                                                     *)
(***************************************************************************)
ClassifiedFailure ==
    \/ token_resp.kind = "http" /\ token_resp.status \in {401, 403}
    \/ gen_resp.kind = "http" /\ gen_resp.status \in {403, 404, 429}

C5_ClassifiedShownVerbatim ==
    (pc = "done" /\ ClassifiedFailure) =>
        /\ Len(displayed) = 1
        /\ displayed[1] \in {MsgAuthFailed, MsgKeyDenied, MsgAccessDenied,
                             MsgModelUnavailable, MsgRateLimit}
        /\ Head(displayed[1]) /= MsgUnexpectedPrefix


\* The concatenation of f(text[1]), ..., f(text[Len(text)]), f a function
\* on code points.
RECURSIVE FlatMap(_, _)
FlatMap(f, text) ==
    IF text = <<>> THEN <<>> ELSE f[Head(text)] \o FlatMap(f, Tail(text))

IsText(t) == /\ DOMAIN t = 1..Len(t)
             /\ \A i \in 1..Len(t) : t[i] \in Nat

(***************************************************************************)
(* C9: for every well-formed profile and every style, the prompt holds,    *)
(* before the style's instruction block, one "label: value" line for each  *)
(* of the eleven profile fields - linkedin and github among them - with    *)
(* the field's value verbatim, or the placeholder when an optional key is  *)
(* absent.                                                                 *)
(***************************************************************************)
FieldLabel ==
    [
      name |-> <<78, 97, 109, 101, 58, 32>>,    \* "Name: "
      role |-> <<82, 111, 108, 101, 58, 32>>,    \* "Role: "
      phone |-> <<80, 104, 111, 110, 101, 58, 32>>,    \* "Phone: "
      email |-> <<69, 109, 97, 105, 108, 58, 32>>,    \* "Email: "
      location |-> <<76, 111, 99, 97, 116, 105, 111, 110, 58, 32>>,    \* "Location: "
      linkedin |-> <<76, 105, 110, 107, 101, 100, 73, 110, 58, 32>>,    \* "LinkedIn: "
      github |-> <<71, 105, 116, 72, 117, 98, 58, 32>>,    \* "GitHub: "
      skills |-> <<83, 107, 105, 108, 108, 115, 58, 32>>,    \* "Skills: "
      experience |-> <<69, 120, 112, 101, 114, 105, 101, 110, 99, 101, 58, 32>>,    \* "Experience: "
      education |-> <<69, 100, 117, 99, 97, 116, 105, 111, 110, 58, 32>>,    \* "Education: "
      certifications |-> <<67, 101, 114, 116, 105, 102, 105, 99, 97, 116, 105, 111, 110, 115, 58, 32>> ]    \* "Certifications: "

Placeholder(f) == IF f = "certifications" THEN NoneListed ELSE NotSpecified

\* "Format requirements:", the first line of every style's block
FormatRequirements == <<70, 111, 114, 109, 97, 116, 32, 114, 101, 113, 117, 105, 114, 101, 109, 101, 110, 116, 115, 58>>

\* The prompt up to its first "Format requirements:".
BeforeStyleBlock(prompt) ==
    LET at == {i \in 1..Len(prompt) : startswith(DropFirst(prompt, i - 1), FormatRequirements)}
    IN  IF at = {} THEN prompt
        ELSE SubSeq(prompt, 1, (CHOOSE i \in at : \A j \in at : i <= j) - 1)

HasLine(prompt, data, f) ==
    contains(BeforeStyleBlock(prompt),
             <<10>> \o FieldLabel[f] \o get(data, f, Placeholder(f)) \o <<10>>)

C9_EveryFieldHasALine ==
    p_stage = "built" => \A f \in Fields : HasLine(p_prompt, p_data, f)

(***************************************************************************)
(* C6: clean_text_for_pdf is total and idempotent, and nothing it returns  *)
(* has a code point of 256 or above: every sanitized text is a string of   *)
(* code points below 256, and sanitizing it again returns it unchanged.    *)
(***************************************************************************)
C6_SanitizerIdempotent ==
    /\ c_stage \in {"cleaned", "again"} =>
          /\ IsText(c_out)
          /\ \A i \in 1..Len(c_out) : c_out[i] < 256
    /\ c_stage = "again" => c_again = c_out

\* "<em dash><L-stroke>" was sanitized to "-?" and then sanitized again.
C6_Witness ==
    /\ c_stage = "again"
    /\ c_text = <<8212, 321>>
    /\ c_out = <<45, 63>>
    /\ c_again = <<45, 63>>

(***************************************************************************)
(* C7: the substitution table covers every glyph class the specification   *)
(* lists - both single and both double curly quotes, en and em dash, the   *)
(* bullet glyphs, the two arrows, the ellipsis, trademark, copyright and   *)
(* registered - so a text made of such glyphs sanitizes to the             *)
(* concatenation of their ASCII forms, none becoming "?" or vanishing.     *)
(***************************************************************************)
SpecGlyphForm ==
    [ c \in {8216, 8217, 8220, 8221, 8211, 8212, 8226, 9679, 9675, 9632, 9633,
             8594, 8592, 8230, 8482, 169, 174} |->
        CASE c \in {8216, 8217} -> <<39>>
          [] c \in {8220, 8221} -> <<34>>
          [] c \in {8211, 8212} -> <<45>>
          [] c \in {8226, 9679, 9675, 9632, 9633} -> <<42, 32>>
          [] c = 8594 -> <<45, 62>>
          [] c = 8592 -> <<60, 45>>
          [] c = 8230 -> <<46, 46, 46>>
          [] c = 8482 -> <<40, 84, 77, 41>>
          [] c = 169 -> <<40, 67, 41>>
          [] c = 174 -> <<40, 82, 41>>
    ]

C7_TableCoversSpecGlyphs ==
    (/\ c_stage \in {"cleaned", "again"}
     /\ \A i \in 1..Len(c_text) : c_text[i] \in DOMAIN SpecGlyphForm)
        => /\ c_replaced = FlatMap(SpecGlyphForm, c_text)
           /\ c_out = c_replaced

(***************************************************************************)
(* C8, as claimed: after the substitution table, the fallback pass emits   *)
(* every character below 256 unchanged, "?" for a letter or digit of 256   *)
(* or above, one space for whitespace of 256 or above, nothing otherwise.  *)
(***************************************************************************)
ClaimedFallback ==
    [ c \in CleanAlphabet \cup (0..255) |->
        IF c < 256 THEN <<c>>
        ELSE IF isalpha(c) \/ isdigit(c) THEN <<63>>
        ELSE IF isspace(c) THEN <<32>>
        ELSE <<>> ]

C8_FallbackAsClaimed ==
    c_stage \in {"cleaned", "again"} => c_out = FlatMap(ClaimedFallback, c_replaced)

(***************************************************************************)
(* C8, amended: after the substitution table, the fallback pass emits an   *)
(* ASCII character unchanged; one space for any non-ASCII whitespace, the  *)
(* NEL control U+0085 (below 256) included; any other character below 256  *)
(* unchanged; "?" for a letter (str.isalpha) or digit (str.isdigit) of 256 *)
(* or above; and nothing otherwise.  A text with no retainable character   *)
(* yields the empty string.                                                *)
(***************************************************************************)
AmendedFallback ==
    [ c \in CleanAlphabet \cup (0..255) |->
        IF c >= 128 /\ isspace(c) THEN <<32>>
        ELSE IF c < 256 THEN <<c>>
        ELSE IF isalpha(c) \/ isdigit(c) THEN <<63>>
        ELSE <<>> ]

C8_FallbackPass ==
    c_stage \in {"cleaned", "again"} =>
        /\ c_out = FlatMap(AmendedFallback, c_replaced)
        /\ (\A i \in 1..Len(c_replaced) : AmendedFallback[c_replaced[i]] = <<>>)
               => c_out = <<>>

\* "<NEL><emoji>" was sanitized to " ": the NEL became a space, the emoji
\* was dropped.
C8_Witness ==
    /\ c_stage = "cleaned"
    /\ c_text = <<133, 128512>>
    /\ c_replaced = <<133, 128512>>
    /\ c_out = <<32>>


(***************************************************************************)
(* The header-skip mode of export_as_pdf.                                  *)
(***************************************************************************)
\* The line of the sanitized text repeats the sanitized name, phone or
\* email of the profile.
RepeatsProfile(line, data) ==
    \/ contains(line, clean_text_for_pdf(data.name))
    \/ contains(line, clean_text_for_pdf(data.phone))
    \/ contains(line, clean_text_for_pdf(data.email))

\* The header-skip mode after the k-th line was processed.
ModeAfter(k) == IF k < Len(trail) THEN trail[k + 1].skip ELSE skip_header

\* C10: for a profile accepted by validation, a line met while the
\* header-skip mode is active that repeats the sanitized name, phone or email
\* is dropped (no heading, bullet or paragraph is rendered for it) and the
\* mode stays active after it.
C10_HeaderLinesDropped ==
    validate(d_user).exc = "none" =>
        \A k \in 1..Len(trail) :
            (trail[k].skip /\ RepeatsProfile(d_lines[k], d_user)) =>
                /\ trail[k].fate = "dropped"
                /\ ModeAfter(k)

\* The same for the profiles whose name, phone and email have no whitespace
\* at either end.
Trimmed(data) ==
    /\ strip(data.name) = data.name
    /\ strip(data.phone) = data.phone
    /\ strip(data.email) = data.email

C10_TrimmedHeaderLinesDropped ==
    (validate(d_user).exc = "none" /\ Trimmed(d_user)) =>
        \A k \in 1..Len(trail) :
            (trail[k].skip /\ RepeatsProfile(d_lines[k], d_user)) =>
                /\ trail[k].fate = "dropped"
                /\ ModeAfter(k)

C10_DroppedSeen ==
    /\ validate(d_user).exc = "none"
    /\ \E k \in 1..Len(trail) :
          /\ trail[k].skip
          /\ RepeatsProfile(d_lines[k], d_user)
          /\ trail[k].fate = "dropped"

(***************************************************************************)
(* The classification of the lines once the header-skip mode has ended.    *)
(***************************************************************************)
\* The block rendered for the k-th line, a line whose fate is "rendered".
BlockOf(k) == blocks[Cardinality({j \in 1..k : trail[j].fate = "rendered"})]

StartsWithMarker(line) ==
    \/ startswith(line, <<45, 32>>)    \* "- "
    \/ startswith(line, <<42, 32>>)    \* "* "
    \/ startswith(line, <<43, 32>>)    \* "+ "

\* The kind and the text the classification rule gives a line.
ClaimedKind(line) ==
    IF StartsWithMarker(line) THEN "bullet"
    ELSE IF isupper(line) /\ Len(line) < 50 THEN "heading"
    ELSE "paragraph"

ClaimedText(line) == IF StartsWithMarker(line) THEN DropFirst(line, 2) ELSE line

\* C11: once the header-skip mode has ended, every non-blank line is
\* rendered as exactly one block, in input order: a bullet without its
\* 2-character marker when it starts with "- ", "* " or "+ ", a heading when
\* it is upper-case, shorter than 50 and starts with no marker, a paragraph
\* otherwise; a line that starts with a marker is never a heading.
C11_OneBlockPerLine ==
    /\ Len(blocks) = Cardinality({j \in 1..Len(trail) : trail[j].fate = "rendered"})
    /\ \A k \in 1..Len(trail) :
          (~trail[k].skip /\ strip(d_lines[k]) /= <<>>) =>
              /\ trail[k].fate = "rendered"
              /\ BlockOf(k).kind = ClaimedKind(strip(d_lines[k]))
              /\ BlockOf(k).text = ClaimedText(strip(d_lines[k]))

(***************************************************************************)
(* The writes of export_as_pdf.                                            *)
(***************************************************************************)
\* C14: the first write is under the preferred name, made of the sanitized
\* profile name and the timestamp; a second write happens if and only if the
\* first failed, under the fallback name made of the timestamp only; there
\* is never a third; the name of the write that succeeded is returned, and
\* when both fail the exception leaves export_as_pdf.
C14_WriteFallbackOnce ==
    /\ Len(d_writes) <= 2
    /\ Len(d_writes) >= 1 =>
          LET sanitized == safe_name(d_user)
          IN  /\ d_writes[1].name =
                    <<114, 101, 115, 117, 109, 101, 95>> \o sanitized \o <<95>>
                        \o Timestamp \o <<46, 112, 100, 102>>
              /\ \A i \in 1..Len(sanitized) : sanitized[i] \in AlnumChars \cup {45, 95}
    /\ Len(d_writes) = 2 =>
          /\ ~d_writes[1].ok
          /\ d_writes[2].name =
                <<114, 101, 115, 117, 109, 101, 95>> \o Timestamp \o <<46, 112, 100, 102>>
    /\ d_pc = "fallback" => (Len(d_writes) = 1 /\ ~d_writes[1].ok)
    /\ d_pc /= "done" => d_result = NoResult
    /\ d_pc = "done" =>
          /\ Len(d_writes) >= 1
          /\ (Len(d_writes) = 2) <=> ~d_writes[1].ok
          /\ d_writes[Len(d_writes)].ok =>
                d_result = [exc |-> "none", value |-> d_writes[Len(d_writes)].name]
          /\ ~d_writes[Len(d_writes)].ok =>
                (Len(d_writes) = 2 /\ d_result.exc = "Exception")

C14_Witness ==
    /\ d_pc = "done"
    /\ Len(d_writes) = 2
    /\ ~d_writes[1].ok
    /\ d_writes[2].ok
    /\ d_result = [exc |-> "none", value |-> simple_filename]
    /\ d_user.name = <<74, 65, 78, 69, 32>>

(***************************************************************************)
(* Where the header-skip mode ends.                                        *)
(***************************************************************************)
\* The k-th line, stripped, is upper-case and shorter than 50.
UpperLine(k) == looks_like_header(strip(d_lines[k]))

Written == d_pc \in {"write", "fallback", "done"}

\* C15 as stated: the mode starts active and ends only at the first line
\* that is upper-case and shorter than 50; no non-blank line before that line
\* is rendered; a text without such a line has no block rendered at all.
C15_EndsAtFirstUpperLine ==
    /\ Len(trail) >= 1 => trail[1].skip
    /\ \A k \in 1..Len(trail) :
          (trail[k].skip /\ ~ModeAfter(k)) =>
              (UpperLine(k) /\ \A j \in 1..(k - 1) : ~UpperLine(j))
    /\ \A k \in 1..Len(trail) :
          (\A j \in 1..k : ~UpperLine(j)) => trail[k].fate /= "rendered"
    /\ (Written /\ \A k \in 1..Len(d_lines) : ~UpperLine(k)) => blocks = <<>>

\* The k-th line, stripped, is upper-case, shorter than 50 and holds neither
\* the sanitized upper-cased name nor the sanitized phone or email.
Ender(k) ==
    /\ looks_like_header(strip(d_lines[k]))
    /\ ~contains(strip(d_lines[k]), clean_text_for_pdf(upper(d_user.name)))
    /\ ~contains(strip(d_lines[k]), clean_text_for_pdf(d_user.phone))
    /\ ~contains(strip(d_lines[k]), clean_text_for_pdf(d_user.email))

\* The first such line of the text, 0 when it has none.
FirstEnder ==
    LET enders == {k \in 1..Len(d_lines) : Ender(k)}
    IN  IF enders = {} THEN 0 ELSE CHOOSE k \in enders : \A j \in enders : k <= j

\* C15, amended: the mode starts active, ends at the first line that is
\* upper-case, shorter than 50 and does not repeat the page header, and
\* nowhere else; once ended it stays ended; no line met in the mode but that
\* one is rendered; a text without such a line has no block rendered, and
\* export_as_pdf goes on to write the document: only two failed writes make
\* it raise.
C15_SkipModeEnds ==
    LET first == FirstEnder
    IN  /\ Len(trail) >= 1 => trail[1].skip
        /\ \A k \in 1..Len(trail) :
              /\ (trail[k].skip /\ ~ModeAfter(k)) <=> (k = first)
              /\ ~trail[k].skip => ~ModeAfter(k)
              /\ (trail[k].skip /\ k /= first) => trail[k].fate /= "rendered"
              /\ k = first => trail[k].fate = "rendered"
        /\ (Written /\ first = 0) =>
              /\ skip_header
              /\ blocks = <<>>
              /\ Len(trail) = Len(d_lines)
              /\ d_result.exc = "Exception" =>
                    (Len(d_writes) = 2 /\ ~d_writes[1].ok /\ ~d_writes[2].ok)

\* An upper-case line that repeats the name is dropped, and the mode ends
\* at the upper-case line after it.
C15_Witness ==
    /\ Len(trail) = 2
    /\ UpperLine(1)
    /\ trail[1] = [skip |-> TRUE, fate |-> "dropped"]
    /\ trail[2] = [skip |-> TRUE, fate |-> "rendered"]
    /\ ~skip_header

(***************************************************************************)
(* The font of the rendered document.                                      *)
(***************************************************************************)
\* C16: the font family has no effect: whatever family export_as_pdf is
\* given for the text, profile and size of the run, it renders the blocks of
\* the run, all of them in Arial; the size is the size of the bullets and
\* paragraphs and of nothing else.
C16_FontFamilyIgnored ==
    m_pdf /= NoPdf =>
        LET write_ok == << m_pdf.writes[1].ok, m_pdf.result.exc = "none" >>
        IN  /\ \A i \in 1..Len(m_pdf.blocks) :
                  /\ m_pdf.blocks[i].font = "Arial"
                  /\ m_pdf.blocks[i].size =
                        IF m_pdf.blocks[i].kind = "heading" THEN 13
                        ELSE m_settings.font_size
            /\ \A i \in 1..Len(m_pdf.cells) : m_pdf.cells[i].font = "Arial"
            /\ \A family \in FontFamilies :
                  export_as_pdf(m_outcome.value, m_user, family, m_settings.font_size,
                                write_ok) = m_pdf
            /\ \A size \in FontSizes :
                  export_as_pdf(m_outcome.value, m_user, AVAILABLE_FONTS[m_settings.font],
                                size, write_ok)
                    = [ m_pdf EXCEPT !.blocks =
                          [i \in 1..Len(m_pdf.blocks) |->
                              IF m_pdf.blocks[i].kind = "heading" THEN m_pdf.blocks[i]
                              ELSE [m_pdf.blocks[i] EXCEPT !.size = size]] ]

C16_Witness ==
    /\ m_settings.font = "Times New Roman"
    /\ m_settings.font_size = 12
    /\ Len(m_pdf.blocks) = 2
    /\ m_pdf.blocks[1].kind = "heading"
    /\ m_pdf.blocks[1].font = "Arial" /\ m_pdf.blocks[1].size = 13
    /\ m_pdf.blocks[2].kind = "bullet"
    /\ m_pdf.blocks[2].font = "Arial" /\ m_pdf.blocks[2].size = 12

\* The steps of generate_resume and generate_resume as one call end alike.
HandlerAgreesWithCall ==
    m_pc \in {"pdf", "open", "text", "json", "end"} =>
        LET r == generate_resume(m_user, RESUME_TEMPLATES[m_settings.template], m_endpoint)
        IN  r.outcome = m_outcome /\ r.prompt = m_prompt

\* The steps of the handler after st.success show what after_success gives.
StepsShowAfterSuccess ==
    (m_pc = "end" /\ m_outcome.exc = "none") =>
        m_shown = <<MsgSuccess>>
                    \o after_success(m_user, m_settings,
                                     <<"write1" \notin m_faults, "write2" \notin m_faults>>,
                                     "open" \notin m_faults)

\* The steps of the renderer and export_as_pdf as one call end alike.
StepsAgreeWithCall ==
    d_pc = "done" =>
        export_as_pdf(d_text, d_user, d_font[1], d_font[2],
                      << d_writes[1].ok, d_result.exc = "none" >>)
          = [cells |-> d_cells, blocks |-> blocks, writes |-> d_writes, result |-> d_result]

(***************************************************************************)
(* The whole pipeline on the end-to-end scenario.                          *)
(***************************************************************************)
ScenarioResponse ==
    [ kind |-> "http", status |-> 200, text |-> "{...}", json |-> TRUE, has_results |-> TRUE,
      results |-> << <<69, 88, 80, 69, 82, 73, 69, 78, 67, 69, 10, 45, 32, 68, 105, 100, 32, 88, 10>> >> ]
                                                         \* "EXPERIENCE\n- Did X\n"

\* The run of the scenario is over: the given profile, the professional
\* style, the mocked answers, and no file operation that failed.
ScenarioRan(profile) ==
    /\ m_pc = "end"
    /\ m_user = profile
    /\ m_settings.template = "Professional"
    /\ m_endpoint = [token |-> GoodToken, gen |-> ScenarioResponse]
    /\ m_faults = {}

ScenarioProduced ==
    /\ contains(m_prompt, <<78, 97, 109, 101, 58, 32, 74, 97, 110, 101, 32, 68, 111, 101>>)    \* "Name: Jane Doe"
    /\ contains(m_prompt, <<83, 107, 105, 108, 108, 115, 58, 32, 71, 111>>)                 \* "Skills: Go"
    /\ [i \in 1..Len(m_pdf.blocks) |-> <<m_pdf.blocks[i].kind, m_pdf.blocks[i].text>>]
          = << <<"heading", <<69, 88, 80, 69, 82, 73, 69, 78, 67, 69>>>>,    \* "EXPERIENCE"
               <<"bullet", <<68, 105, 100, 32, 88>>>> >>                        \* "Did X"
    /\ \E i \in 1..Len(m_offered) :
          /\ m_offered[i].kind = "json"
          /\ m_offered[i].data.user_data.name = <<74, 97, 110, 101, 32, 68, 111, 101>>
                                                                       \* "Jane Doe"

\* C12: the pipeline run on the scenario profile (phone "555-0100") with the
\* professional style and the mocked response "EXPERIENCE\n- Did X\n" gives
\* a prompt with "Name: Jane Doe" and "Skills: Go", a body of one heading
\* "EXPERIENCE" and one bullet "Did X", and a JSON record whose
\* user_data.name is "Jane Doe".
C12_EndToEnd == ScenarioRan(ScenarioProfile) => ScenarioProduced

\* The same run on the profile with a phone number validation accepts.
C12_WithAcceptedPhone ==
    ScenarioRan([ScenarioProfile EXCEPT !.phone = BaseProfile.phone]) => ScenarioProduced

C12_AcceptedPhoneRan ==
    ScenarioRan([ScenarioProfile EXCEPT !.phone = BaseProfile.phone]) /\ ScenarioProduced

(***************************************************************************)
(* The three artifacts.                                                    *)
(***************************************************************************)
Offered(kind) == \E i \in 1..Len(m_offered) : m_offered[i].kind = kind

\* C13: after a successful generation the text and the JSON record are made
\* available whatever happens to the PDF: a fault while rendering or
\* writing it does not keep the handler from offering the other two.
C13_ArtifactsIndependent ==
    (m_pc = "end" /\ m_outcome.exc = "none") => (Offered("text") /\ Offered("json"))
====
